---- MODULE Spec2Model ----
(***************************************************************************)
(* Model of the rule-based detection-and-conversion engine of              *)
(* migration_engine.py: detect_in_content, apply_pom_dependency_changes,   *)
(* apply_conversions and process_file.                                     *)
(*                                                                         *)
(* Text is a sequence of tokens.  A token is one character ("a", "\n",     *)
(* " ") or one piece of XML markup ("<a>" stands for <artifactId>, "<v>"   *)
(* for <version>, "<g>" for <groupId>, "<d>" for <dependency>, "<p>" for   *)
(* <project>, "<?>" for the XML declaration).  Markup tokens are atomic:   *)
(* no rule value of the model contains part of a tag.                      *)
(***************************************************************************)
EXTENDS Integers, Sequences, FiniteSets, TLC

VARIABLES compiled_rules, fs, pc, frame, log, trace

vars == <<compiled_rules, fs, pc, frame, log, trace>>

\* ------------------------------------------------------------------ bounds
\* longest content of a plain text file, in tokens
MaxLen == 2
\* most dependencies of a generated descriptor
MaxDeps == 2
\* most rules of a generated rule list
MaxRules == 2
\* most process_file calls in one behaviour
MaxRuns == 2

\* ------------------------------------------------------------------ values
\* Python's None, as a text no content holds
None == <<"None">>
\* a path that names no file
NoFile == <<"ENOENT">>

Min(a, b) == IF a < b THEN a ELSE b

\* s[i..j] with 1-based inclusive bounds, <<>> when j < i
Slice(s, i, j) == IF j < i THEN <<>> ELSE SubSeq(s, i, j)

\* does p occur in s starting at 1-based position i
OccursAt(s, p, i) ==
  /\ i >= 1
  /\ i + Len(p) - 1 <= Len(s)
  /\ \A k \in 1..Len(p) : s[i + k - 1] = p[k]

\* Python: p in s
Contains(s, p) == \E i \in 1..(Len(s) + 1) : OccursAt(s, p, i)

RECURSIVE ReplaceFrom(_, _, _, _)
ReplaceFrom(s, old, new, i) ==
  IF i > Len(s) THEN <<>>
  ELSE IF OccursAt(s, old, i) THEN new \o ReplaceFrom(s, old, new, i + Len(old))
  ELSE <<s[i]>> \o ReplaceFrom(s, old, new, i + 1)

\* Python: s.replace(old, new) for a non-empty old (leftmost, non-overlapping)
Replace(s, old, new) == ReplaceFrom(s, old, new, 1)

RECURSIVE CountFrom(_, _, _)
CountFrom(s, p, i) ==
  IF i + Len(p) - 1 > Len(s) THEN 0
  ELSE IF OccursAt(s, p, i) THEN 1 + CountFrom(s, p, i + Len(p))
  ELSE CountFrom(s, p, i + 1)

\* Python: s.count(p); the empty text is counted between all characters
Count(s, p) == IF p = <<>> THEN Len(s) + 1 ELSE CountFrom(s, p, 1)

\* Python: t.isspace(), for the characters of the model
IsSpace(t) == t \in {" ", "\n", "\r", "\f"}

RECURSIVE LStrip(_)
LStrip(s) == IF s # <<>> /\ IsSpace(Head(s)) THEN LStrip(Tail(s)) ELSE s

RECURSIVE RStrip(_)
RStrip(s) ==
  IF s # <<>> /\ IsSpace(s[Len(s)]) THEN RStrip(SubSeq(s, 1, Len(s) - 1)) ELSE s

\* Python: s.strip()
Strip(s) == RStrip(LStrip(s))

\* the line boundaries of str.splitlines: \n, \r, \r\n as one, and \f for
\* the further ones (\v, \x1c..\x1e, \x85, \u2028, \u2029)
LineEnds == {"\n", "\r", "\f"}

\* the position of the first boundary character at or after i, 0 for none
FirstEnd(s, i) ==
  IF \E k \in i..Len(s) : s[k] \in LineEnds
  THEN CHOOSE k \in i..Len(s) : s[k] \in LineEnds /\ \A m \in i..(k - 1) : s[m] \notin LineEnds
  ELSE 0

\* the length of the boundary that starts at e
EndLen(s, e) == IF s[e] = "\r" /\ e < Len(s) /\ s[e + 1] = "\n" THEN 2 ELSE 1

RECURSIVE SplitFrom(_, _, _)
RECURSIVE SplitAt(_, _, _, _)
SplitAt(s, i, keepends, e) ==
  IF e = 0 THEN <<Slice(s, i, Len(s))>>
  ELSE <<Slice(s, i, IF keepends THEN e + EndLen(s, e) - 1 ELSE e - 1)>>
         \o SplitFrom(s, e + EndLen(s, e), keepends)

SplitFrom(s, i, keepends) ==
  IF i > Len(s) THEN <<>> ELSE SplitAt(s, i, keepends, FirstEnd(s, i))

\* Python: s.splitlines() and s.splitlines(keepends=True)
SplitLines(s) == SplitFrom(s, 1, FALSE)
SplitLinesKeepEnds(s) == SplitFrom(s, 1, TRUE)

\* Python: line.rstrip("\n\r")
RECURSIVE RStripNewline(_)
RStripNewline(s) ==
  IF s # <<>> /\ s[Len(s)] \in {"\n", "\r"}
  THEN RStripNewline(SubSeq(s, 1, Len(s) - 1)) ELSE s

\* ------------------------------------------------------------------ utilities
RECURSIVE FindLineColFrom(_, _, _, _)
FindLineColFrom(lines, index, i, acc) ==
  IF i > Len(lines) THEN [line |-> 1, col |-> 1, text |-> <<>>]
  ELSE IF acc + Len(lines[i]) > index
       THEN [line |-> i, col |-> index - acc + 1, text |-> RStripNewline(lines[i])]
       ELSE FindLineColFrom(lines, index, i + 1, acc + Len(lines[i]))

\* find_line_col(content, index): index is a 0-based offset
find_line_col(content, index) ==
  FindLineColFrom(SplitLinesKeepEnds(content), index, 1, 0)

RECURSIVE FindIterFrom(_, _, _)
FindIterFrom(content, pat, i) ==
  IF i + Len(pat) - 1 > Len(content) THEN <<>>
  ELSE IF OccursAt(content, pat, i)
       THEN <<i - 1>> \o FindIterFrom(content, pat, i + (IF pat = <<>> THEN 1 ELSE Len(pat)))
       ELSE FindIterFrom(content, pat, i + 1)

\* rule.detect_regex.finditer(content) for a pattern that is a literal text:
\* the 0-based start offsets of its non-overlapping matches, left to right.
\* The empty pattern matches (with zero width) at every offset 0..len(content).
finditer(pat, content) == FindIterFrom(content, pat, 1)

\* difflib.unified_diff(a.splitlines(), b.splitlines(), lineterm=""), joined:
\* empty when the two line lists are equal, else a hunk that carries both
UnifiedDiff(a, b) ==
  IF SplitLines(a) = SplitLines(b) THEN <<>>
  ELSE <<"@@">> \o <<"-">> \o a \o <<"+">> \o b

\* ------------------------------------------------------------------ detection
\* the exception lines[line - 1] raises when the index is out of range
IndexError == [exception |-> "IndexError"]

IsException(v) == "exception" \in DOMAIN v

\* an occurrence that keeps the matched text in place of the source line
OccurrenceAtMatchOnly(lines, rule, file_path, line, col) ==
  IF line - 1 >= Len(lines) THEN IndexError
  ELSE [file |-> file_path,
        rule_id |-> rule.id,
        domain |-> rule.domain,
        line |-> line,
        column |-> col,
        original_line |-> rule.detect_regex,
        new_line |-> rule.detect_regex,
        context_before |-> IF line - 2 >= 0 THEN lines[line - 1] ELSE <<>>,
        context_after |-> IF line < Len(lines) THEN lines[line + 1] ELSE <<>>,
        diff |-> None]

\* one occurrence dict of detect_in_content, or IndexError when lines[line - 1]
\* is out of range
OccurrenceAt(lines, rule, file_path, line, col) ==
  IF line - 1 >= Len(lines) THEN IndexError
  ELSE [file |-> file_path,
        rule_id |-> rule.id,
        domain |-> rule.domain,
        line |-> line,
        column |-> col,
        original_line |-> lines[line],
        new_line |-> lines[line],
        context_before |-> IF line - 2 >= 0 THEN lines[line - 1] ELSE <<>>,
        context_after |-> IF line < Len(lines) THEN lines[line + 1] ELSE <<>>,
        diff |-> None]

MatchOccurrenceAt(lines, rule, file_path, lc) ==
  OccurrenceAt(lines, rule, file_path, lc.line, lc.col)

MatchOccurrence(content, lines, rule, file_path, start) ==
  MatchOccurrenceAt(lines, rule, file_path, find_line_col(content, start))

RECURSIVE DetectMatches(_, _, _, _, _, _)
DetectMatches(content, lines, rule, file_path, starts, k) ==
  IF k > Len(starts) THEN <<>>
  ELSE <<MatchOccurrence(content, lines, rule, file_path, starts[k])>>
         \o DetectMatches(content, lines, rule, file_path, starts, k + 1)

\* the rule loop with the occurrences of a later rule put first
RECURSIVE DetectRulesLaterFirst(_, _, _, _, _)
DetectRulesLaterFirst(content, lines, rules, file_path, r) ==
  IF r > Len(rules) THEN <<>>
  ELSE DetectRulesLaterFirst(content, lines, rules, file_path, r + 1)
         \o DetectMatches(content, lines, rules[r], file_path,
                          finditer(rules[r].detect_regex, content), 1)

RECURSIVE DetectRules(_, _, _, _, _)
DetectRules(content, lines, rules, file_path, r) ==
  IF r > Len(rules) THEN <<>>
  ELSE DetectMatches(content, lines, rules[r], file_path,
                     finditer(rules[r].detect_regex, content), 1)
         \o DetectRules(content, lines, rules, file_path, r + 1)

\* detect_in_content(content, rules, file_path): the occurrence list, or the
\* exception that leaves the function
DetectResult(occs) ==
  IF \E k \in 1..Len(occs) : IsException(occs[k])
  THEN [raised |-> TRUE, occurrences |-> <<>>]
  ELSE [raised |-> FALSE, occurrences |-> occs]

detect_in_content(content, rules, file_path) ==
  DetectResult(DetectRules(content, SplitLines(content), rules, file_path, 1))

\* ------------------------------------------------------------------ XML
OpenTags == {"<p>", "<d>", "<g>", "<a>", "<v>"}
CloseTags == {"</p>", "</d>", "</g>", "</a>", "</v>"}
XmlDecl == "<?>"

CloseOf(t) ==
  CASE t = "<p>" -> "</p>" [] t = "<d>" -> "</d>" [] t = "<g>" -> "</g>"
    [] t = "<a>" -> "</a>" [] t = "<v>" -> "</v>"

IsMarkup(t) == t \in OpenTags \cup CloseTags \cup {XmlDecl}

RECURSIVE WellFormedFrom(_, _, _, _)
WellFormedFrom(s, i, stack, roots) ==
  IF i > Len(s) THEN stack = <<>> /\ roots = 1
  ELSE LET t == s[i] IN
       CASE t = XmlDecl -> i = 1 /\ WellFormedFrom(s, i + 1, stack, roots)
         [] t \in OpenTags ->
              IF stack = <<>> /\ roots >= 1 THEN FALSE
              ELSE WellFormedFrom(s, i + 1, <<t>> \o stack,
                                  IF stack = <<>> THEN roots + 1 ELSE roots)
         [] t \in CloseTags ->
              /\ stack # <<>>
              /\ CloseOf(Head(stack)) = t
              /\ WellFormedFrom(s, i + 1, Tail(stack), roots)
         [] OTHER -> (stack # <<>> \/ IsSpace(t))
                     /\ WellFormedFrom(s, i + 1, stack, roots)

\* ET.fromstring(content) succeeds: one document element, tags nested and
\* closed, only white space outside it, the declaration only at the start
WellFormed(content) == WellFormedFrom(content, 1, <<>>, 0)

\* the document element of a well-formed content, as ET.tostring(root) writes it
\* back: the declaration and the white space around the element are not kept
RootElement(content) ==
  LET first == CHOOSE i \in 1..Len(content) :
                 content[i] \in OpenTags /\ \A j \in 1..(i - 1) : content[j] \notin OpenTags
      last == CHOOSE i \in 1..Len(content) :
                content[i] \in CloseTags /\ \A j \in (i + 1)..Len(content) : content[j] \notin CloseTags
  IN  Slice(content, first, last)

\* position of the first markup token at or after i (Len + 1 when there is none)
RECURSIVE NextMarkup(_, _)
NextMarkup(doc, i) ==
  IF i > Len(doc) \/ IsMarkup(doc[i]) THEN i ELSE NextMarkup(doc, i + 1)

\* position of the k-th <dependency> of root.findall(".//dependency"), which
\* lists the descendants of the root in document order, the root excluded
DepPositions(doc) == {i \in 2..Len(doc) : doc[i] = "<d>"}

RECURSIVE NthOf(_, _)
NthOf(S, k) ==
  LET m == CHOOSE x \in S : \A y \in S : x <= y
  IN  IF k = 1 THEN m ELSE NthOf(S \ {m}, k - 1)

\* elem.find(tag): the first direct child with that tag, 0 for None
RECURSIVE FindChildFrom(_, _, _, _)
FindChildFrom(doc, i, depth, tag) ==
  IF i > Len(doc) THEN 0
  ELSE LET t == doc[i] IN
       CASE t \in OpenTags ->
              IF depth = 0 /\ t = tag THEN i ELSE FindChildFrom(doc, i + 1, depth + 1, tag)
         [] t \in CloseTags ->
              IF depth = 0 THEN 0 ELSE FindChildFrom(doc, i + 1, depth - 1, tag)
         [] OTHER -> FindChildFrom(doc, i + 1, depth, tag)

FindChild(doc, e, tag) == FindChildFrom(doc, e + 1, 0, tag)

\* position of the closing tag of the element opened at e
RECURSIVE ElemEndFrom(_, _, _)
ElemEndFrom(doc, i, depth) ==
  LET t == doc[i] IN
  CASE t \in OpenTags -> ElemEndFrom(doc, i + 1, depth + 1)
    [] t \in CloseTags -> IF depth = 0 THEN i ELSE ElemEndFrom(doc, i + 1, depth - 1)
    [] OTHER -> ElemEndFrom(doc, i + 1, depth)

ElemEnd(doc, e) == ElemEndFrom(doc, e + 1, 0)

\* elem.text: the text between the opening tag and the next markup
ElemText(doc, e) == Slice(doc, e + 1, NextMarkup(doc, e + 1) - 1)

\* "x.text.strip() if x is not None and x.text else ''"
TextOrEmpty(doc, e) == IF e = 0 THEN <<>> ELSE Strip(ElemText(doc, e))

\* ET.tostring(elem, encoding="unicode").strip(): the element and its tail
ToStringStripped(doc, e) ==
  Strip(Slice(doc, e, NextMarkup(doc, ElemEnd(doc, e) + 1) - 1))

\* elem.text = new, in the serialized document (None serializes as no text)
SetText(doc, e, new) ==
  Slice(doc, 1, e) \o (IF new = None THEN <<>> ELSE new)
    \o Slice(doc, NextMarkup(doc, e + 1), Len(doc))

\* ------------------------------------------------------------------ rules
\* rule.id.lower().startswith(prefix), for the ids of the rule catalog
LowerStartsWith(id, prefix) ==
  CASE prefix = "pom_artifactid" -> id \in {"POM_ARTIFACTID_O", "pom_artifactid_off"}
    [] prefix = "pom_version" -> id \in {"pom_version_1"}
    [] OTHER -> FALSE

\* Rule(id, detect_regex, convert_enabled, convert_old, convert_new, domain);
\* severity, description and category are copied through and carry no logic
Rule(id, detect, enabled, old, new, domain) ==
  [id |-> id, detect_regex |-> detect, convert_enabled |-> enabled,
   convert_old |-> old, convert_new |-> new, domain |-> domain]

\* ------------------------------------------------------------------ structural rewriter
\* "for occ in occurrences: if occ.rule_id == rule.id and
\*  occ.original_line.strip() == old_line: set new_line and diff"
UpdateOccurrencesPom(occurrences, rule, old_line, new_line) ==
  [k \in 1..Len(occurrences) |->
     IF occurrences[k].rule_id = rule.id /\ Strip(occurrences[k].original_line) = old_line
     THEN [occurrences[k] EXCEPT !.new_line = new_line,
                                 !.diff = UnifiedDiff(old_line, new_line)]
     ELSE occurrences[k]]

PomChange(file_path, rule) ==
  [file |-> file_path, rule_id |-> rule.id,
   old_value |-> rule.convert_old, new_value |-> rule.convert_new]

\* an element's text rewritten: the document, the occurrences and the changes
\* after "elem.text = new", the occurrence loop and "changes.append"
PomEdited(st, rule, file_path, elem, old_line, doc2) ==
  [doc |-> doc2,
   occurrences |-> UpdateOccurrencesPom(st.occurrences, rule, old_line,
                                        ToStringStripped(doc2, elem)),
   changes |-> Append(st.changes, PomChange(file_path, rule))]

PomEdit(st, rule, file_path, elem) ==
  PomEdited(st, rule, file_path, elem, ToStringStripped(st.doc, elem),
            SetText(st.doc, elem, rule.convert_new))

\* the artifactId branch of the rule loop, for the dependency at dep
PomArtifactStep(st, rule, dep, aid_text, file_path) ==
  IF /\ LowerStartsWith(rule.id, "pom_artifactid")
     /\ rule.convert_enabled
     /\ rule.convert_old \notin {None, <<>>}
     /\ rule.convert_old = aid_text
  THEN PomEdit(st, rule, file_path, FindChild(st.doc, dep, "<a>"))
  ELSE st

\* "any(r.id.lower().startswith('pom_artifactid') and r.convert_old == aid_text
\*      for r in rules)"
AnyArtifactRuleFor(rules, aid_text) ==
  \E r \in 1..Len(rules) :
     LowerStartsWith(rules[r].id, "pom_artifactid") /\ rules[r].convert_old = aid_text

PomVersionEdit(st, rule, rules, ver, aid_text, ver_text, file_path) ==
  IF /\ LowerStartsWith(rule.id, "pom_version")
     /\ rule.convert_enabled
     /\ rule.convert_old \notin {None, <<>>}
     /\ ver # 0
     /\ aid_text # <<>>
     /\ AnyArtifactRuleFor(rules, aid_text)
     /\ ver_text = rule.convert_old
  THEN PomEdit(st, rule, file_path, ver)
  ELSE st

\* the version branch of the rule loop, for the k-th dependency: the edit of
\* the artifactId before it may have moved the elements that follow
PomVersionStep(st, rule, rules, k, aid_text, ver_text, file_path) ==
  PomVersionEdit(st, rule, rules, FindChild(st.doc, NthOf(DepPositions(st.doc), k), "<v>"),
                 aid_text, ver_text, file_path)

PomRuleStep(st, rule, rules, k, aid_text, ver_text, file_path) ==
  PomVersionStep(
    PomArtifactStep(st, rule, NthOf(DepPositions(st.doc), k), aid_text, file_path),
    rule, rules, k, aid_text, ver_text, file_path)

RECURSIVE PomRules(_, _, _, _, _, _, _)
PomRules(st, rules, r, k, aid_text, ver_text, file_path) ==
  IF r > Len(rules) THEN st
  ELSE PomRules(PomRuleStep(st, rules[r], rules, k, aid_text, ver_text, file_path),
                rules, r + 1, k, aid_text, ver_text, file_path)

\* the texts of a dependency are read once, before its rule loop
PomDep(st, rules, k, dep, file_path) ==
  PomRules(st, rules, 1, k,
           TextOrEmpty(st.doc, FindChild(st.doc, dep, "<a>")),
           TextOrEmpty(st.doc, FindChild(st.doc, dep, "<v>")),
           file_path)

\* "for dep in deps"
RECURSIVE PomDeps(_, _, _, _, _)
PomDeps(st, rules, k, ndeps, file_path) ==
  IF k > ndeps THEN st
  ELSE PomDeps(PomDep(st, rules, k, NthOf(DepPositions(st.doc), k), file_path),
               rules, k + 1, ndeps, file_path)

PomResult(st) ==
  [content |-> st.doc, changes |-> st.changes, occurrences |-> st.occurrences]

PomParsed(doc, file_path, occurrences, rules) ==
  PomResult(PomDeps([doc |-> doc, occurrences |-> occurrences, changes |-> <<>>],
                    rules, 1, Cardinality(DepPositions(doc)), file_path))

\* a parse failure answered with an empty document
ApplyPomChangesDropsMalformed(content, file_path, occurrences, rules) ==
  IF ~WellFormed(content)
  THEN [content |-> <<>>, changes |-> <<>>, occurrences |-> occurrences]
  ELSE PomParsed(RootElement(content), file_path, occurrences, rules)

\* apply_pom_dependency_changes(content, file_path, occurrences, rules):
\* (new_content, changes), and the occurrence list it updates in place
apply_pom_dependency_changes(content, file_path, occurrences, rules) ==
  IF ~WellFormed(content)
  THEN [content |-> content, changes |-> <<>>, occurrences |-> occurrences]
  ELSE PomParsed(RootElement(content), file_path, occurrences, rules)

\* ------------------------------------------------------------------ generic rewriter
\* "for occ in occurrences: if occ['rule_id'] == rule.id: ..."
WithNewLine(occ, new_line) ==
  [occ EXCEPT !.new_line = new_line, !.diff = UnifiedDiff(occ.original_line, new_line)]

UpdateOccurrencesGeneric(occurrences, rule) ==
  [k \in 1..Len(occurrences) |->
     IF occurrences[k].rule_id = rule.id
     THEN WithNewLine(occurrences[k],
                      IF Contains(occurrences[k].original_line, rule.convert_old)
                      THEN Replace(occurrences[k].original_line, rule.convert_old,
                                   rule.convert_new)
                      ELSE occurrences[k].original_line)
     ELSE occurrences[k]]

\* a Change that counts what is left of the old-value
GenericChangeCountsOld(file_path, rule, new_content) ==
  [file |-> file_path, rule_id |-> rule.id, domain |-> rule.domain,
   occurrences |-> Count(new_content, rule.convert_old),
   old_value |-> rule.convert_old, new_value |-> rule.convert_new]

GenericChange(file_path, rule, new_content) ==
  [file |-> file_path, rule_id |-> rule.id, domain |-> rule.domain,
   occurrences |-> Count(new_content, rule.convert_new),
   old_value |-> rule.convert_old, new_value |-> rule.convert_new]

\* the global replacement done: the occurrence loop and "changes.append"
GenericReplaced(st, rule, file_path, new_content) ==
  [content |-> new_content,
   occurrences |-> UpdateOccurrencesGeneric(st.occurrences, rule),
   changes |-> Append(st.changes, GenericChange(file_path, rule, new_content))]

\* the turn of a rule without "if old not in new_content: continue"
GenericStepNoSkip(st, rule, file_path) ==
  IF \/ ~rule.convert_enabled
     \/ rule.convert_old \in {None, <<>>}
     \/ rule.convert_new = None
  THEN st
  ELSE GenericReplaced(st, rule, file_path,
                       Replace(st.content, rule.convert_old, rule.convert_new))

\* one turn of "for rule in rules" of apply_conversions
GenericStep(st, rule, file_path) ==
  IF \/ ~rule.convert_enabled
     \/ rule.convert_old \in {None, <<>>}
     \/ rule.convert_new = None
  THEN st
  ELSE IF ~Contains(st.content, rule.convert_old) THEN st
  ELSE GenericReplaced(st, rule, file_path,
                       Replace(st.content, rule.convert_old, rule.convert_new))

RECURSIVE GenericRules(_, _, _, _)
GenericRules(st, rules, r, file_path) ==
  IF r > Len(rules) THEN st
  ELSE GenericRules(GenericStep(st, rules[r], file_path), rules, r + 1, file_path)

\* str(file_path).endswith("pom.xml"), for the file names of the model
EndsWithPomXml(file_path) == file_path.stem = "pom" /\ file_path.exts = <<".xml">>

\* apply_conversions(content, rules, file_path, occurrences):
\* (new_content, changes), and the occurrence list it updates in place
apply_conversions(content, rules, file_path, occurrences) ==
  GenericRules(IF EndsWithPomXml(file_path)
               THEN apply_pom_dependency_changes(content, file_path, occurrences, rules)
               ELSE [content |-> content, changes |-> <<>>, occurrences |-> occurrences],
               rules, 1, file_path)

\* ------------------------------------------------------------------ rule compiler
\* one Rule(...) of compile_rules: the pattern compiled, the Convert fields
\* copied, the domain set by the collection the definition stands in
CompileRule(r, domain) ==
  Rule(r.ID, r.Regexp, r.Enabled, r.Old, r.New, domain)

CompileList(defs, domain) == [k \in 1..Len(defs) |-> CompileRule(defs[k], domain)]

\* compile_rules(config)
compile_rules(config) ==
  [file_specific |-> [key \in DOMAIN config.FileSpecificRules |->
                        CompileList(config.FileSpecificRules[key], "FILE")],
   sql |-> CompileList(config.SQLRules, "SQL"),
   plsql |-> CompileList(config.PLSQLRules, "PLSQL"),
   java |-> CompileList(config.JavaTypeRules, "JAVA")]

\* ------------------------------------------------------------------ paths
\* a path is its stem and its suffixes: pom.xml is [stem "pom", exts <<".xml">>]
Path(stem, exts) == [stem |-> stem, exts |-> exts]

\* file_path.name, as a dictionary key
Name(file_path) == <<file_path.stem>> \o file_path.exts

\* file_path.suffix.lstrip("."), as a dictionary key; "" for no suffix
Ext(file_path) ==
  IF file_path.exts = <<>> THEN <<>>
  ELSE LET suffix == file_path.exts[Len(file_path.exts)]
       IN  <<CASE suffix = ".java" -> "java" [] suffix = ".sql" -> "sql"
               [] suffix = ".xml" -> "xml" [] suffix = ".txt" -> "txt"
               [] suffix = ".bak" -> "bak">>

\* file_name.endswith(suffix)
NameEndsWith(file_path, suffix) ==
  file_path.exts # <<>> /\ file_path.exts[Len(file_path.exts)] = suffix

\* file_path.with_suffix(file_path.suffix + backup_ext)
BackupPath(file_path, backup_ext) == Path(file_path.stem, Append(file_path.exts, backup_ext))

\* a glob whose "*" also swallows the suffixes it should compare
PathMatchAnySuffix(file_path, pat) ==
  IF pat.stem = "*" THEN TRUE ELSE file_path = pat

\* Path(filename).match(pat) for a one-component pattern: a literal name, or
\* "*" followed by suffixes
PathMatch(file_path, pat) ==
  IF pat.stem = "*"
  THEN /\ Len(file_path.exts) >= Len(pat.exts)
       /\ SubSeq(file_path.exts, Len(file_path.exts) - Len(pat.exts) + 1,
                 Len(file_path.exts)) = pat.exts
  ELSE file_path = pat

\* matches_search_pattern(filename, patterns)
matches_search_pattern(file_path, patterns) ==
  \E k \in 1..Len(patterns) : PathMatch(file_path, patterns[k])

\* sha256_of_text(text): the digest, taken to be free of collisions
sha256_of_text(text) == <<"sha256">> \o text

\* ------------------------------------------------------------------ file content
\* a byte that is no valid UTF-8
InvalidByte == "0xFF"

\* "file_path.read_text(encoding='utf-8', errors='ignore')": bytes that do not
\* decode are dropped, and the text layer turns \r\n and \r into \n.
\* write_text stores the text as it is (POSIX line ends, UTF-8).
RECURSIVE ReadTextFrom(_, _)
ReadTextFrom(bytes, i) ==
  IF i > Len(bytes) THEN <<>>
  ELSE IF bytes[i] = InvalidByte THEN ReadTextFrom(bytes, i + 1)
  ELSE IF bytes[i] = "\r"
       THEN <<"\n">> \o ReadTextFrom(bytes, IF i < Len(bytes) /\ bytes[i + 1] = "\n"
                                               THEN i + 2 ELSE i + 1)
  ELSE <<bytes[i]>> \o ReadTextFrom(bytes, i + 1)

read_text(bytes) == ReadTextFrom(bytes, 1)

\* the rules keyed by the extension put before those keyed by the name
RulesToApplyExtFirst(file_path, compiled, file_specific_rules) ==
  (IF Ext(file_path) \in DOMAIN file_specific_rules
   THEN file_specific_rules[Ext(file_path)] ELSE <<>>)
  \o (IF Name(file_path) \in DOMAIN file_specific_rules
      THEN file_specific_rules[Name(file_path)] ELSE <<>>)
  \o (IF NameEndsWith(file_path, ".java") THEN compiled.java
      ELSE IF NameEndsWith(file_path, ".sql") THEN compiled.sql \o compiled.plsql
      ELSE <<>>)

\* ------------------------------------------------------------------ process_file
\* "rules_to_apply + domain_rules" of process_file
RulesToApply(file_path, compiled, file_specific_rules) ==
  (IF Name(file_path) \in DOMAIN file_specific_rules
   THEN file_specific_rules[Name(file_path)] ELSE <<>>)
  \o (IF Ext(file_path) \in DOMAIN file_specific_rules
      THEN file_specific_rules[Ext(file_path)] ELSE <<>>)
  \o (IF NameEndsWith(file_path, ".java") THEN compiled.java
      ELSE IF NameEndsWith(file_path, ".sql") THEN compiled.sql \o compiled.plsql
      ELSE <<>>)

FileAudit(file, before_hash, after_hash, changed) ==
  [file |-> file, before_hash |-> before_hash, after_hash |-> after_hash,
   changed |-> changed]

\* the locals of process_file at source line 447, once the simulated
\* conversion is done
Converted(file_path, content, dry_run, conv) ==
  [file_path |-> file_path,
   dry_run |-> dry_run,
   raised |-> FALSE,
   content |-> content,
   occurrences |-> conv.occurrences,
   new_content |-> conv.content,
   changes |-> conv.changes,
   changed |-> conv.content # content,
   before_hash |-> sha256_of_text(content),
   after_hash |-> IF conv.content # content THEN sha256_of_text(conv.content)
                  ELSE sha256_of_text(content)]

\* the conversions simulated only when the changes are to be applied
DetectedSkipsDryRun(file_path, content, dry_run, all_rules, det) ==
  IF det.raised
  THEN [file_path |-> file_path, dry_run |-> dry_run, raised |-> TRUE, content |-> content]
  ELSE Converted(file_path, content, dry_run,
                 IF dry_run
                 THEN [content |-> content, changes |-> <<>>, occurrences |-> det.occurrences]
                 ELSE apply_conversions(content, all_rules, file_path, det.occurrences))

\* detection done (source line 442): the exception leaves process_file, else
\* the conversions are simulated whatever dry_run is
Detected(file_path, content, dry_run, all_rules, det) ==
  IF det.raised
  THEN [file_path |-> file_path, dry_run |-> dry_run, raised |-> TRUE, content |-> content]
  ELSE Converted(file_path, content, dry_run,
                 apply_conversions(content, all_rules, file_path, det.occurrences))

WithRules(file_path, content, dry_run, all_rules) ==
  Detected(file_path, content, dry_run, all_rules,
           detect_in_content(content, all_rules, file_path))

\* process_file from the read of the file (source line 412) to line 447
Simulate(file_path, content, compiled, dry_run) ==
  WithRules(file_path, content, dry_run,
            RulesToApply(file_path, compiled, compiled.file_specific))

\* ------------------------------------------------------------------ inputs
\* ScanOptions.SearchFiles of the configuration: *.java, *.sql, pom.xml
SearchFiles == <<Path("*", <<".java">>), Path("*", <<".sql">>), Path("pom", <<".xml">>)>>

\* GlobalOptions.DefaultBackupExtension
DefaultBackupExtension == ".bak"

PomXml == Path("pom", <<".xml">>)
JavaFile == Path("A", <<".java">>)
SqlFile == Path("q", <<".sql">>)
TxtFile == Path("notes", <<".txt">>)

SrcPaths == {PomXml, JavaFile, SqlFile, TxtFile}
AllPaths == SrcPaths \cup {BackupPath(f, DefaultBackupExtension) : f \in SrcPaths}

\* raw rule definitions of the configuration document
RuleDef(id, regexp, enabled, old, new) ==
  [ID |-> id, Regexp |-> regexp, Enabled |-> enabled, Old |-> old, New |-> new]

\* descriptor rules: artifactId o -> p, version 1 -> 2, a switched-off
\* artifactId rule for x, and a rule aimed at the groupId g
PomRuleDefs ==
  {RuleDef("POM_ARTIFACTID_O", <<"<a>", "o", "</a>">>, TRUE, <<"o">>, <<"p">>),
   RuleDef("pom_version_1", <<"<v>", "1", "</v>">>, TRUE, <<"1">>, <<"2">>),
   RuleDef("pom_artifactid_off", <<"<a>", "x", "</a>">>, FALSE, <<"x">>, <<"y">>),
   RuleDef("GROUP_G", <<"<g>", "g", "</g>">>, TRUE, <<"g">>, <<"h">>)}

\* text rules: ab -> x, b deleted, a -> aa, and a detect-only rule whose
\* pattern matches with zero width
TextRuleDefs ==
  {RuleDef("R_AB", <<"a", "b">>, TRUE, <<"a", "b">>, <<"x">>),
   RuleDef("R_B", <<"b">>, TRUE, <<"b">>, <<>>),
   RuleDef("R_A", <<"a">>, TRUE, <<"a">>, <<"a", "a">>),
   RuleDef("ZERO_WIDTH", <<>>, FALSE, None, None)}

SeqsUpTo(S, n) == UNION {[1..k -> S] : k \in 0..n}

\* rule lists: a rule id stands once in a configuration
RuleListsUpTo(S, n) ==
  {defs \in SeqsUpTo(S, n) : \A i, j \in 1..Len(defs) : defs[i] = defs[j] => i = j}

EmptyConfig ==
  [FileSpecificRules |-> <<>>, SQLRules |-> <<>>, PLSQLRules |-> <<>>,
   JavaTypeRules |-> <<>>]

\* the configurations a file is processed under: the rule list stands where
\* process_file looks for rules of that file
ConfigsFor(f) ==
  CASE f = PomXml ->
         {[EmptyConfig EXCEPT !.FileSpecificRules = (Name(PomXml) :> defs)] :
            defs \in RuleListsUpTo(PomRuleDefs, MaxRules)}
    [] f = JavaFile ->
         {[EmptyConfig EXCEPT !.JavaTypeRules = defs] :
            defs \in RuleListsUpTo(TextRuleDefs, MaxRules)}
    [] f = SqlFile ->
         {[EmptyConfig EXCEPT !.SQLRules = Slice(defs, 1, Min(1, Len(defs))),
                              !.PLSQLRules = Slice(defs, 2, Len(defs))] :
            defs \in RuleListsUpTo(TextRuleDefs, MaxRules)}
    [] f = TxtFile ->
         {[EmptyConfig EXCEPT !.FileSpecificRules = (Ext(TxtFile) :> defs)] :
            defs \in RuleListsUpTo(TextRuleDefs, 1)}

TextAlphabet == {"a", "b", "\n"}

\* dependencies of generated descriptors: the targeted one, one with another
\* artifact and the same version, one whose artifactId and groupId contain o
DepCatalog ==
  {[g |-> <<"g">>, a |-> <<"o">>, v |-> <<"1">>],
   [g |-> <<"g">>, a |-> <<"x">>, v |-> <<"1">>],
   [g |-> <<"o">>, a |-> <<"o", "x">>, v |-> <<"2">>]}

\* one <dependency> block, on one line or one element per indented line
DepText(d, pretty) ==
  LET nl == IF pretty THEN <<"\n", " ">> ELSE <<>>
  IN  <<"<d>">> \o nl \o <<"<g>">> \o d.g \o <<"</g>">>
        \o nl \o <<"<a>">> \o d.a \o <<"</a>">>
        \o nl \o <<"<v>">> \o d.v \o <<"</v>">>
        \o (IF pretty THEN <<"\n">> ELSE <<>>) \o <<"</d>">>

RECURSIVE DepsText(_, _, _)
DepsText(deps, pretty, k) ==
  IF k > Len(deps) THEN <<>>
  ELSE (IF pretty THEN <<"\n">> ELSE <<>>) \o DepText(deps[k], pretty)
         \o DepsText(deps, pretty, k + 1)

PomText(decl, pretty, deps) ==
  (IF decl THEN <<XmlDecl>> ELSE <<>>)
    \o (IF decl /\ pretty THEN <<"\n">> ELSE <<>>)
    \o <<"<p>">> \o DepsText(deps, pretty, 1)
    \o (IF pretty THEN <<"\n">> ELSE <<>>) \o <<"</p>">>
    \o (IF pretty THEN <<"\n">> ELSE <<>>)

\* a text without its last token
ButLast(t) == SubSeq(t, 1, Len(t) - 1)

\* descriptors: bare on one line, or laid out in lines under a declaration;
\* and descriptors of one dependency cut before the closing tag of the root
PomContents ==
  {PomText(layout, layout, deps) :
     layout \in BOOLEAN, deps \in SeqsUpTo(DepCatalog, MaxDeps)}
  \cup {ButLast(PomText(FALSE, FALSE, <<d>>)) : d \in DepCatalog}

ContentsFor(f) ==
  CASE f = PomXml -> PomContents
    [] f = SqlFile -> SeqsUpTo(TextAlphabet \ {"\n"}, MaxLen)
    [] OTHER -> SeqsUpTo(TextAlphabet, MaxLen)

\* ------------------------------------------------------------------ state machine
NoFrame == [raised |-> FALSE]

ReadEvent(f, text) == [op |-> "read", path |-> f, text |-> text]
WriteEvent(f, text) == [op |-> "write", path |-> f, text |-> text]

\* one entry of the call history: the arguments of a process_file call, the
\* bytes the file held when the call began, the text the call read from them,
\* the content the call computed, and what it returned (audits holds the
\* FileAudit, or nothing for None) or the exception that left it
LogEntry(file, dry_run, raw, before, new_content, error, occurrences, changes, audits) ==
  [file |-> file, dry_run |-> dry_run, raw |-> raw, before |-> before,
   new_content |-> new_content, raised |-> error # "", error |-> error,
   occurrences |-> occurrences, changes |-> changes, audits |-> audits]

AuditOf(fr) == FileAudit(fr.file_path, fr.before_hash, fr.after_hash, fr.changed)

\* "return occurrences, changes, audit" (source lines 451 and 471)
Returned(fr, raw) ==
  LogEntry(fr.file_path, fr.dry_run, raw, fr.content, fr.new_content, "",
           fr.occurrences, fr.changes, <<AuditOf(fr)>>)

\* the call left by an exception: nothing is returned
Raised(fr, raw, error) ==
  LogEntry(fr.file_path, fr.dry_run, raw, fr.content, fr.content, error, <<>>, <<>>, <<>>)

Init ==
  \E f \in SrcPaths :
    \E content \in ContentsFor(f), config \in ConfigsFor(f) :
      /\ compiled_rules = compile_rules(config)
      /\ fs = [q \in AllPaths |-> IF q = f THEN content ELSE NoFile]
      /\ pc = "idle"
      /\ frame = NoFrame
      /\ log = <<>>
      /\ trace = <<>>

CanCall(f) == pc = "idle" /\ Len(log) < MaxRuns /\ fs[f] # NoFile

\* process_file on a path no search pattern matches: "return [], [], None"
CallNoMatch(f, dry_run) ==
  /\ CanCall(f)
  /\ ~matches_search_pattern(f, SearchFiles)
  /\ log' = Append(log, LogEntry(f, dry_run, fs[f], fs[f], fs[f], "", <<>>, <<>>, <<>>))
  /\ UNCHANGED <<compiled_rules, fs, pc, frame, trace>>

\* process_file left by the IndexError of detect_in_content
CallRaises(f, dry_run) ==
  /\ CanCall(f)
  /\ matches_search_pattern(f, SearchFiles)
  /\ \E fr \in {Simulate(f, read_text(fs[f]), compiled_rules, dry_run)} :
         /\ fr.raised
         /\ log' = Append(log, Raised(fr, fs[f], "IndexError"))
  /\ trace' = Append(trace, ReadEvent(f, fs[f]))
  /\ UNCHANGED <<compiled_rules, fs, pc, frame>>

\* the dry-run return missing: the file is overwritten all the same
CallDryRunWrites(f) ==
  /\ CanCall(f)
  /\ matches_search_pattern(f, SearchFiles)
  /\ \E fr \in {Simulate(f, read_text(fs[f]), compiled_rules, TRUE)} :
         /\ ~fr.raised
         /\ log' = Append(log, Returned(fr, fs[f]))
         /\ fs' = [fs EXCEPT ![f] = fr.new_content]
         /\ trace' = trace \o <<ReadEvent(f, fs[f]), WriteEvent(f, fr.new_content)>>
  /\ UNCHANGED <<compiled_rules, pc, frame>>

\* process_file with dry_run: the return of source lines 450-456
CallDryRun(f) ==
  /\ CanCall(f)
  /\ matches_search_pattern(f, SearchFiles)
  /\ \E fr \in {Simulate(f, read_text(fs[f]), compiled_rules, TRUE)} :
         /\ ~fr.raised
         /\ log' = Append(log, Returned(fr, fs[f]))
  /\ trace' = Append(trace, ReadEvent(f, fs[f]))
  /\ UNCHANGED <<compiled_rules, fs, pc, frame>>

\* process_file without dry_run, nothing to write: the return of line 471
CallApplyUnchanged(f) ==
  /\ CanCall(f)
  /\ matches_search_pattern(f, SearchFiles)
  /\ \E fr \in {Simulate(f, read_text(fs[f]), compiled_rules, FALSE)} :
         /\ ~fr.raised
         /\ ~fr.changed
         /\ log' = Append(log, Returned(fr, fs[f]))
  /\ trace' = Append(trace, ReadEvent(f, fs[f]))
  /\ UNCHANGED <<compiled_rules, fs, pc, frame>>

\* process_file without dry_run, up to "if changed:" taken
CallApplyChanged(f) ==
  /\ CanCall(f)
  /\ matches_search_pattern(f, SearchFiles)
  /\ \E fr \in {Simulate(f, read_text(fs[f]), compiled_rules, FALSE)} :
         /\ ~fr.raised
         /\ fr.changed
         /\ frame' = fr
  /\ pc' = "backup"
  /\ trace' = Append(trace, ReadEvent(f, fs[f]))
  /\ UNCHANGED <<compiled_rules, fs, log>>

\* "backup_path.write_text(content)"
WriteBackup ==
  /\ pc = "backup"
  /\ \E backup_path \in {BackupPath(frame.file_path, DefaultBackupExtension)} :
         /\ fs' = [fs EXCEPT ![backup_path] = frame.content]
         /\ trace' = Append(trace, WriteEvent(backup_path, frame.content))
  /\ pc' = "overwrite"
  /\ UNCHANGED <<compiled_rules, frame, log>>

\* "file_path.write_text(new_content)" and the return of line 471
WriteFile ==
  /\ pc = "overwrite"
  /\ fs' = [fs EXCEPT ![frame.file_path] = frame.new_content]
  /\ trace' = Append(trace, WriteEvent(frame.file_path, frame.new_content))
  /\ log' = Append(log, Returned(frame, fs[frame.file_path]))
  /\ pc' = "idle"
  /\ frame' = NoFrame
  /\ UNCHANGED compiled_rules

Next ==
  \/ \E f \in SrcPaths, dry_run \in BOOLEAN : CallNoMatch(f, dry_run)
  \/ \E f \in SrcPaths, dry_run \in BOOLEAN : CallRaises(f, dry_run)
  \/ \E f \in SrcPaths : CallDryRun(f)
  \/ \E f \in SrcPaths : CallApplyUnchanged(f)
  \/ \E f \in SrcPaths : CallApplyChanged(f)
  \/ WriteBackup
  \/ WriteFile

Spec == Init /\ [][Next]_vars

\* ------------------------------------------------------------------ claims
Calls == 1..Len(log)

BackupOf(f) == BackupPath(f, DefaultBackupExtension)

IsWrite(e) == e.op = "write"

\* C1: a dry-run call and an apply call of process_file on the same file with
\* the same initial content return the same occurrence list (new_line and diff
\* included), the same change list and the same audit
C1_DryRunAndApplyAgree ==
  \A i, j \in Calls :
    (/\ log[i].dry_run
     /\ ~log[j].dry_run
     /\ log[i].file = log[j].file
     /\ log[i].before = log[j].before)
    => /\ log[i].raised = log[j].raised
       /\ log[i].occurrences = log[j].occurrences
       /\ log[i].changes = log[j].changes
       /\ log[i].audits = log[j].audits

\* a dry run and an apply run on the same content, the apply run rewrote the
\* file and an occurrence carries a rewritten line
C1_Witness ==
  \E i, j \in Calls :
    /\ log[i].dry_run
    /\ ~log[j].dry_run
    /\ log[i].before = log[j].before
    /\ log[j].new_content # log[j].before
    /\ fs[log[j].file] = log[j].new_content
    /\ \E k \in 1..Len(log[j].occurrences) :
         log[j].occurrences[k].new_line # log[j].occurrences[k].original_line

\* C2: a step that completes a dry-run call writes nothing: every file and
\* every backup is as before, and the step records no write
C2_DryRunWritesNothing ==
  [][(Len(log') = Len(log) + 1 /\ log'[Len(log')].dry_run)
       => /\ fs' = fs
          /\ \A k \in (Len(trace) + 1)..Len(trace') : ~IsWrite(trace'[k])]_vars

\* a dry-run call has just returned a simulated content that differs from the
\* file's, and the file is as it was and has no backup
C2_Witness ==
  /\ log # <<>>
  /\ log[Len(log)].dry_run
  /\ log[Len(log)].new_content # log[Len(log)].before
  /\ log[Len(log)].audits # <<>>
  /\ log[Len(log)].audits[1].changed
  /\ fs[log[Len(log)].file] = log[Len(log)].before
  /\ fs[BackupOf(log[Len(log)].file)] = NoFile
  /\ \A k \in 1..Len(trace) : ~IsWrite(trace[k])

\* C3 (as claimed): every overwrite of a file comes right after the write of
\* its backup, which holds what the file held; while the overwrite is pending
\* the backup exists and the file is still the original; and an apply call
\* that changed the content did overwrite the file with it
C3_BackupBeforeOverwrite ==
  /\ \A k \in 1..Len(trace) :
       (IsWrite(trace[k]) /\ trace[k].path \in SrcPaths)
       => /\ k >= 3
          /\ trace[k - 2] = ReadEvent(trace[k].path, trace[k - 2].text)
          /\ trace[k - 1] = WriteEvent(BackupOf(trace[k].path), trace[k - 2].text)
  /\ pc = "overwrite"
       => /\ fs[BackupOf(frame.file_path)] = fs[frame.file_path]
          /\ trace[Len(trace) - 1] = ReadEvent(frame.file_path, fs[frame.file_path])
  /\ pc = "backup" => trace[Len(trace)] = ReadEvent(frame.file_path, fs[frame.file_path])
  /\ \A i \in Calls :
       (~log[i].dry_run /\ ~log[i].raised /\ log[i].new_content # log[i].before)
       => \E k \in 1..Len(trace) : trace[k] = WriteEvent(log[i].file, log[i].new_content)

\* the paths that match none of the patterns *.java, *.sql and pom.xml: the
\* name is not pom.xml and ends neither in .java nor in .sql
MatchesNoPattern(f) ==
  /\ Name(f) # <<"pom", ".xml">>
  /\ ~NameEndsWith(f, ".java")
  /\ ~NameEndsWith(f, ".sql")

\* C8: a call on a path no search pattern matches returns no occurrence, no
\* change and no audit, and the file is not read and not written
C8_NoMatchNoEffect ==
  \A i \in Calls :
    MatchesNoPattern(log[i].file)
    => /\ ~log[i].raised
       /\ log[i].occurrences = <<>>
       /\ log[i].changes = <<>>
       /\ log[i].audits = <<>>
       /\ fs[log[i].file] = log[i].raw
       /\ \A k \in 1..Len(trace) :
            trace[k].path \notin {log[i].file, BackupOf(log[i].file)}

\* a call on notes.txt, whose content holds the old-value of an enabled rule
\* filed under its extension
C8_Witness ==
  \E i \in Calls :
    /\ log[i].file = TxtFile
    /\ \E r \in 1..Len(RulesToApply(TxtFile, compiled_rules, compiled_rules.file_specific)) :
         /\ RulesToApply(TxtFile, compiled_rules, compiled_rules.file_specific)[r].convert_enabled
         /\ Contains(log[i].before,
                     RulesToApply(TxtFile, compiled_rules, compiled_rules.file_specific)[r].convert_old)

\* the rules process_file applies to f under the compiled configuration
AppliedRules(f) == RulesToApply(f, compiled_rules, compiled_rules.file_specific)

\* a rule the generic rewriter converts with (source line 341)
Converts(rule) ==
  rule.convert_enabled /\ rule.convert_old \notin {None, <<>>} /\ rule.convert_new # None

\* calls that went through detection and conversion and returned
Processed == {i \in Calls : matches_search_pattern(log[i].file, SearchFiles) /\ ~log[i].raised}

\* calls on a well-formed descriptor
PomCalls == {i \in Processed : EndsWithPomXml(log[i].file) /\ WellFormed(log[i].before)}

NDeps(content) == Cardinality(DepPositions(RootElement(content)))

\* the stripped text of a child of the k-th dependency of a content
DepFieldIn(doc, k, tag) == TextOrEmpty(doc, FindChild(doc, NthOf(DepPositions(doc), k), tag))
DepField(content, k, tag) == DepFieldIn(RootElement(content), k, tag)

\* C4 (as claimed): in the content returned for a descriptor, a dependency
\* whose artifactId is the old-value of no artifact-id rule keeps its version
C4_VersionOnlyForTargetedArtifact ==
  \A i \in PomCalls :
    \A k \in 1..NDeps(log[i].before) :
      ~AnyArtifactRuleFor(AppliedRules(log[i].file), DepField(log[i].before, k, "<a>"))
      => DepField(log[i].new_content, k, "<v>") = DepField(log[i].before, k, "<v>")

\* no old-value of a converting rule occurs in the content
NoOldValueIn(content, rules) ==
  \A r \in 1..Len(rules) : Converts(rules[r]) => ~Contains(content, rules[r].convert_old)

C6_NewLineReflectsSubstitution ==
  \A i \in Processed :
    \A k \in 1..Len(log[i].occurrences) :
      \A r \in 1..Len(AppliedRules(log[i].file)) :
        (/\ AppliedRules(log[i].file)[r].id = log[i].occurrences[k].rule_id
         /\ Converts(AppliedRules(log[i].file)[r])
         /\ Contains(log[i].occurrences[k].original_line,
                     AppliedRules(log[i].file)[r].convert_old))
        => log[i].occurrences[k].new_line =
             Replace(log[i].occurrences[k].original_line,
                     AppliedRules(log[i].file)[r].convert_old,
                     AppliedRules(log[i].file)[r].convert_new)

\* C7 (as claimed): a call on a file that matches a search pattern returns
\* one FileAudit, whose changed flag tells whether the rewritten content
\* differs and whose after_hash is the hash of the content the file ends with
C7_OneAuditPerMatchingFile ==
  \A i \in Calls :
    matches_search_pattern(log[i].file, SearchFiles)
    => /\ Len(log[i].audits) = 1
       /\ log[i].audits[1].changed = (log[i].new_content # log[i].before)
       /\ log[i].audits[1].before_hash = sha256_of_text(log[i].before)
       /\ log[i].audits[1].after_hash =
            IF log[i].audits[1].changed THEN sha256_of_text(log[i].new_content)
            ELSE log[i].audits[1].before_hash

\* a rule other than the artifact-id and version rules aims at the text
SeparateRuleTargets(rules, text) ==
  \E r \in 1..Len(rules) :
    /\ ~LowerStartsWith(rules[r].id, "pom_artifactid")
    /\ ~LowerStartsWith(rules[r].id, "pom_version")
    /\ Converts(rules[r])
    /\ Contains(text, rules[r].convert_old)

\* the k-th dependency has the old artifactId of rule ra and the old version
\* of rule rv, both converting
BothRulesMatch(rules, content, k, ra, rv) ==
  /\ LowerStartsWith(rules[ra].id, "pom_artifactid")
  /\ LowerStartsWith(rules[rv].id, "pom_version")
  /\ Converts(rules[ra])
  /\ Converts(rules[rv])
  /\ DepField(content, k, "<a>") = rules[ra].convert_old
  /\ DepField(content, k, "<v>") = rules[rv].convert_old

\* C9 (as claimed): where a dependency matches an artifact-id rule and a
\* version rule, the returned content has both new-values in that dependency,
\* and the groupId of every dependency no separate rule aims at is unchanged
C9_BothFieldsRewrittenGroupIdKept ==
  \A i \in PomCalls :
    \A k \in 1..NDeps(log[i].before) :
      \A ra, rv \in 1..Len(AppliedRules(log[i].file)) :
        BothRulesMatch(AppliedRules(log[i].file), log[i].before, k, ra, rv)
        => /\ DepField(log[i].new_content, k, "<a>") = AppliedRules(log[i].file)[ra].convert_new
           /\ DepField(log[i].new_content, k, "<v>") = AppliedRules(log[i].file)[rv].convert_new
           /\ \A m \in 1..NDeps(log[i].before) :
                ~SeparateRuleTargets(AppliedRules(log[i].file), DepField(log[i].before, m, "<g>"))
                => DepField(log[i].new_content, m, "<g>") = DepField(log[i].before, m, "<g>")

\* C10 (as claimed): in the content returned for a descriptor, a dependency
\* whose artifactId is not exactly the old-value of an artifact-id rule keeps
\* its artifactId
C10_ArtifactIdExactMatchOnly ==
  \A i \in PomCalls :
    \A k \in 1..NDeps(log[i].before) :
      ~AnyArtifactRuleFor(AppliedRules(log[i].file), DepField(log[i].before, k, "<a>"))
      => DepField(log[i].new_content, k, "<a>") = DepField(log[i].before, k, "<a>")

\* the content after the turn of one rule of the generic rewriter
AfterTurn(cur, rule) ==
  IF Converts(rule) /\ Contains(cur, rule.convert_old)
  THEN Replace(cur, rule.convert_old, rule.convert_new)
  ELSE cur

\* the content current after the turns of the first r rules
RECURSIVE ContentAfter(_, _, _)
ContentAfter(content, rules, r) ==
  IF r = 0 THEN content
  ELSE AfterTurn(ContentAfter(content, rules, r - 1), rules[r])

\* the r-th rule converts and finds its old-value in the content current at
\* its turn
Fires(content, rules, r) ==
  Converts(rules[r]) /\ Contains(ContentAfter(content, rules, r - 1), rules[r].convert_old)

\* the changes a call returned for one rule
ChangesOf(i, id) == {k \in 1..Len(log[i].changes) : log[i].changes[k].rule_id = id}

\* calls on files the generic rewriter alone rewrites
GenericCalls == {i \in Processed : ~EndsWithPomXml(log[i].file)}

\* C11: the generic rewriter takes the rules in order over the current
\* content: a rule whose old-value is absent at its turn emits no Change and
\* leaves the content; any other converting rule replaces every occurrence
\* and emits one Change that counts the new-value in the content right after
C11_GenericRulesInOrder ==
  \A i \in GenericCalls :
    /\ log[i].new_content =
         ContentAfter(log[i].before, AppliedRules(log[i].file), Len(AppliedRules(log[i].file)))
    /\ \A r \in 1..Len(AppliedRules(log[i].file)) :
         IF Fires(log[i].before, AppliedRules(log[i].file), r)
         THEN /\ Cardinality(ChangesOf(i, AppliedRules(log[i].file)[r].id)) = 1
              /\ \A k \in ChangesOf(i, AppliedRules(log[i].file)[r].id) :
                   log[i].changes[k].occurrences =
                     Count(ContentAfter(log[i].before, AppliedRules(log[i].file), r),
                           AppliedRules(log[i].file)[r].convert_new)
         ELSE ChangesOf(i, AppliedRules(log[i].file)[r].id) = {}
    /\ \A r, s \in 1..Len(AppliedRules(log[i].file)) :
         \A k \in ChangesOf(i, AppliedRules(log[i].file)[r].id) :
           \A m \in ChangesOf(i, AppliedRules(log[i].file)[s].id) :
             r < s => k < m

\* a call in which a first rule rewrote the content and took from a later
\* converting rule the old-value the original content held for it
C11_Witness ==
  \E i \in GenericCalls :
    \E r, s \in 1..Len(AppliedRules(log[i].file)) :
      /\ r < s
      /\ Fires(log[i].before, AppliedRules(log[i].file), r)
      /\ Converts(AppliedRules(log[i].file)[s])
      /\ Contains(log[i].before, AppliedRules(log[i].file)[s].convert_old)
      /\ ~Fires(log[i].before, AppliedRules(log[i].file), s)
      /\ Len(log[i].changes) = 1

\* ------------------------------------------------------------------ the text functions alone
\* longest content handed to find_line_col and detect_in_content directly
MaxText == 3

\* characters of those contents: two letters and the line boundaries
TextTokens == {"a", "b", "\n", "\r", "\f"}

TextsUpTo(n) == SeqsUpTo(TextTokens, n)

\* detection rules: the letter a, the zero-width pattern, and a detect-only
\* pattern that runs over a line boundary
DetectRuleDefs ==
  {d \in TextRuleDefs : d.ID \in {"R_A", "ZERO_WIDTH"}}
    \cup {RuleDef("MULTI_LINE", <<"\n", "a">>, FALSE, None, None)}

InitText ==
  /\ compiled_rules = compile_rules(EmptyConfig)
  /\ fs = [q \in AllPaths |-> NoFile]
  /\ pc = "text"
  /\ \E content \in TextsUpTo(MaxText) : frame = [content |-> content]
  /\ log = <<>>
  /\ trace = <<>>

\* find_line_col(content, index) for an offset 0..len(content)
ResolveOffset ==
  /\ pc = "text"
  /\ \E index \in 0..Len(frame.content) :
       log' = <<[content |-> frame.content, index |-> index,
                 result |-> find_line_col(frame.content, index)]>>
  /\ pc' = "resolved"
  /\ UNCHANGED <<compiled_rules, fs, frame, trace>>

\* detect_in_content(content, rules, file_path) for a compiled rule list
DetectContent ==
  /\ pc = "text"
  /\ \E defs \in RuleListsUpTo(DetectRuleDefs, MaxRules) :
       log' = <<[content |-> frame.content, rules |-> CompileList(defs, "SQL"),
                 result |-> detect_in_content(frame.content, CompileList(defs, "SQL"),
                                              SqlFile)]>>
  /\ pc' = "detected"
  /\ UNCHANGED <<compiled_rules, fs, frame, trace>>

NextText == ResolveOffset \/ DetectContent

SpecText == InitText /\ [][NextText]_vars

\* the k-th character of s is the last one of a line boundary
EndsLine(s, k) == s[k] \in LineEnds /\ ~(s[k] = "\r" /\ k < Len(s) /\ s[k + 1] = "\n")

\* the 1-based number of the line that holds the 0-based offset index
LineNumber(s, index) == 1 + Cardinality({k \in 1..index : EndsLine(s, k)})

\* the number of characters before that line
LineStart(s, index) ==
  IF \E k \in 1..index : EndsLine(s, k)
  THEN CHOOSE k \in 1..index : EndsLine(s, k) /\ \A m \in (k + 1)..index : ~EndsLine(s, m)
  ELSE 0

\* the text of the line that starts after start characters, boundary left out
LineText(s, start) ==
  Slice(s, start + 1, IF FirstEnd(s, start + 1) = 0 THEN Len(s) ELSE FirstEnd(s, start + 1) - 1)

\* C12 (as claimed): for a non-empty content, the offset equal to its length
\* resolves to the last line of the content, its number and its text
C12_EndOffsetIsLastLine ==
  (pc = "resolved" /\ log[1].content # <<>> /\ log[1].index = Len(log[1].content))
  => /\ log[1].result.line = LineNumber(log[1].content, Len(log[1].content) - 1)
     /\ log[1].result.text =
          LineText(log[1].content, LineStart(log[1].content, Len(log[1].content) - 1))

\* C13 (as claimed): an offset inside the content resolves to the number of
\* its line, the column counted from the line's first character, and the
\* line's text without its boundary; the empty content gives (1, 1, "")
C13_OffsetResolvesToItsLine ==
  (pc = "resolved" /\ (log[1].index < Len(log[1].content) \/ log[1].content = <<>>))
  => /\ log[1].result.line = LineNumber(log[1].content, log[1].index)
     /\ log[1].result.col = log[1].index - LineStart(log[1].content, log[1].index) + 1
     /\ log[1].result.line >= 1
     /\ log[1].result.col >= 1
     /\ log[1].result.text =
          LineText(log[1].content, LineStart(log[1].content, log[1].index))

\* the place of a rule id in a rule list that holds it once
RuleIndex(rules, id) == CHOOSE r \in 1..Len(rules) : rules[r].id = id

\* the number of occurrences that belong to the rules before the r-th
OccurrencesBefore(occs, rules, r) ==
  Cardinality({k \in 1..Len(occs) : RuleIndex(rules, occs[k].rule_id) < r})

\* the occurrences of the r-th rule stand, after those of the earlier rules,
\* one per match in the order of the match starts
RuleOccurrencesInMatchOrder(occs, content, rules, r, starts) ==
  /\ Cardinality({k \in 1..Len(occs) : occs[k].rule_id = rules[r].id}) = Len(starts)
  /\ \A j \in 1..Len(starts) :
       /\ occs[OccurrencesBefore(occs, rules, r) + j].rule_id = rules[r].id
       /\ occs[OccurrencesBefore(occs, rules, r) + j].line = find_line_col(content, starts[j]).line
       /\ occs[OccurrencesBefore(occs, rules, r) + j].column = find_line_col(content, starts[j]).col
       /\ \A m \in 1..(j - 1) : starts[m] < starts[j]

\* C14: detect_in_content lists the occurrences by rule order first and by
\* match start within a rule second
C14_OccurrencesInRuleThenMatchOrder ==
  (pc = "detected" /\ ~log[1].result.raised)
  => /\ \A k, m \in 1..Len(log[1].result.occurrences) :
          k < m => RuleIndex(log[1].rules, log[1].result.occurrences[k].rule_id)
                     <= RuleIndex(log[1].rules, log[1].result.occurrences[m].rule_id)
     /\ \A r \in 1..Len(log[1].rules) :
          RuleOccurrencesInMatchOrder(log[1].result.occurrences, log[1].content,
                                      log[1].rules, r,
                                      finditer(log[1].rules[r].detect_regex, log[1].content))

\* a detection in which the first rule matched on two lines and the second
\* rule matched too
C14_Witness ==
  /\ pc = "detected"
  /\ ~log[1].result.raised
  /\ Len(log[1].rules) = 2
  /\ Len(log[1].result.occurrences) = 3
  /\ log[1].result.occurrences[1].rule_id = log[1].rules[1].id
  /\ log[1].result.occurrences[2].rule_id = log[1].rules[1].id
  /\ log[1].result.occurrences[1].line < log[1].result.occurrences[2].line
  /\ log[1].result.occurrences[3].rule_id = log[1].rules[2].id

\* the occurrences of the r-th rule are one per match and carry the line and
\* the column of the match start
RuleOccurrencesAtMatchStarts(occs, content, rules, r, starts) ==
  /\ Cardinality({k \in 1..Len(occs) : occs[k].rule_id = rules[r].id}) = Len(starts)
  /\ \A j \in 1..Len(starts) :
       /\ OccurrencesBefore(occs, rules, r) + j <= Len(occs)
       /\ occs[OccurrencesBefore(occs, rules, r) + j].line = LineNumber(content, starts[j])
       /\ occs[OccurrencesBefore(occs, rules, r) + j].column =
            starts[j] - LineStart(content, starts[j]) + 1

\* C15 (as claimed): detect_in_content never fails and emits, for every match
\* of every rule, one occurrence with the line and column of the match start,
\* zero-width matches and matches at the end of the content included
C15_OneOccurrencePerMatchNeverFails ==
  pc = "detected"
  => /\ ~log[1].result.raised
     /\ \A r \in 1..Len(log[1].rules) :
          RuleOccurrencesAtMatchStarts(log[1].result.occurrences, log[1].content,
                                       log[1].rules, r,
                                       finditer(log[1].rules[r].detect_regex, log[1].content))

\* the number of lines of a content
NumLines(s) ==
  Cardinality({k \in 1..Len(s) : EndsLine(s, k)})
    + (IF s # <<>> /\ ~EndsLine(s, Len(s)) THEN 1 ELSE 0)

\* the number of characters before the n-th line
NthLineStart(s, n) ==
  IF n = 1 THEN 0
  ELSE CHOOSE k \in 1..Len(s) :
         EndsLine(s, k) /\ Cardinality({m \in 1..k : EndsLine(s, m)}) = n - 1

\* the text of the n-th line, the empty text when there is no such line
LineAt(s, n) ==
  IF n >= 1 /\ n <= NumLines(s) THEN LineText(s, NthLineStart(s, n)) ELSE <<>>

\* C16: an occurrence of detect_in_content has the whole source line of its
\* line number as original_line, the lines before and after it as context
\* (empty where there is none), new_line equal to original_line and no diff
C16_OccurrenceCarriesWholeLine ==
  (pc = "detected" /\ ~log[1].result.raised)
  => \A k \in 1..Len(log[1].result.occurrences) :
       /\ log[1].result.occurrences[k].line \in 1..NumLines(log[1].content)
       /\ log[1].result.occurrences[k].original_line =
            LineAt(log[1].content, log[1].result.occurrences[k].line)
       /\ log[1].result.occurrences[k].context_before =
            LineAt(log[1].content, log[1].result.occurrences[k].line - 1)
       /\ log[1].result.occurrences[k].context_after =
            LineAt(log[1].content, log[1].result.occurrences[k].line + 1)
       /\ log[1].result.occurrences[k].new_line = log[1].result.occurrences[k].original_line
       /\ log[1].result.occurrences[k].diff = None

\* a detection with an occurrence on a line that is more than its match and has a
\* line after it, and an occurrence that has a line before it
C16_Witness ==
  /\ pc = "detected"
  /\ ~log[1].result.raised
  /\ \E k, m \in 1..Len(log[1].result.occurrences) :
       /\ log[1].result.occurrences[k].context_after # <<>>
       /\ log[1].result.occurrences[k].original_line
            # log[1].rules[RuleIndex(log[1].rules, log[1].result.occurrences[k].rule_id)].detect_regex
       /\ log[1].result.occurrences[m].context_before # <<>>
       /\ log[1].result.occurrences[m].line = 2

\* calls on a descriptor that is not well-formed
MalformedPomCalls ==
  {i \in Calls : EndsWithPomXml(log[i].file) /\ ~WellFormed(log[i].before)}

\* C17: for a descriptor that is not well-formed the call does not raise, no
\* structural Change is returned, and the rules are applied by the generic
\* rewriter to the unmodified content
C17_MalformedDescriptorStillGeneric ==
  \A i \in MalformedPomCalls :
    /\ ~log[i].raised
    /\ \A k \in 1..Len(log[i].changes) : "occurrences" \in DOMAIN log[i].changes[k]
    /\ log[i].new_content =
         ContentAfter(log[i].before, AppliedRules(log[i].file), Len(AppliedRules(log[i].file)))
    /\ \A r \in 1..Len(AppliedRules(log[i].file)) :
         Cardinality(ChangesOf(i, AppliedRules(log[i].file)[r].id)) =
           IF Fires(log[i].before, AppliedRules(log[i].file), r) THEN 1 ELSE 0

\* a call on a truncated descriptor in which a rule that would also edit an
\* element structurally rewrote the text
C17_Witness ==
  \E i \in MalformedPomCalls :
    /\ log[i].before # <<>>
    /\ log[i].new_content # log[i].before
    /\ \E k \in 1..Len(log[i].changes) :
         LowerStartsWith(log[i].changes[k].rule_id, "pom_artifactid")

\* ------------------------------------------------------------------ files that are not plain text
\* longest content of a file given as bytes
MaxBytes == 3

ByteTokens == {"a", "b", "\n", "\r", InvalidByte}

\* the bytes decode without loss
ValidText(bytes) == \A k \in 1..Len(bytes) : bytes[k] # InvalidByte

\* contents that read_text does not hand on as they are: a byte that does not
\* decode, or a line end other than \n
ByteContents ==
  {bytes \in SeqsUpTo(ByteTokens, MaxBytes) :
     \E k \in 1..Len(bytes) : bytes[k] \in {"\r", InvalidByte}}

InitBytes ==
  \E f \in {SqlFile, JavaFile, TxtFile} :
    \E bytes \in ByteContents, config \in ConfigsFor(f) :
      /\ compiled_rules = compile_rules(config)
      /\ fs = [q \in AllPaths |-> IF q = f THEN bytes ELSE NoFile]
      /\ pc = "idle"
      /\ frame = NoFrame
      /\ log = <<>>
      /\ trace = <<>>

SpecBytes == InitBytes /\ [][Next]_vars

\* C20 (as claimed): a file whose bytes are not valid text is skipped: the
\* call returns no occurrence, no change and no audit, and the file keeps
\* its bytes
C20_UndecodableFileSkipped ==
  \A i \in Calls :
    ~ValidText(log[i].raw)
    => /\ log[i].occurrences = <<>>
       /\ log[i].changes = <<>>
       /\ log[i].audits = <<>>
       /\ ~log[i].raised
       /\ fs[log[i].file] = log[i].raw

\* ------------------------------------------------------------------ writes that fail
\* a write_text that raised OSError, in the call with that number
FailEvent(f, text, call) == [op |-> "write_failed", path |-> f, text |-> text, call |-> call]

\* what a failed write_text leaves of a file: it was not opened, or it was
\* opened for writing and so emptied
AfterFailedWrite(f) == {fs[f], <<>>}

\* "backup_path.write_text(content)" raises: nothing catches the exception in
\* process_file, which is left without a return value
WriteBackupFails ==
  /\ pc = "backup"
  /\ \E backup_path \in {BackupPath(frame.file_path, DefaultBackupExtension)} :
         /\ \E left \in AfterFailedWrite(backup_path) : fs' = [fs EXCEPT ![backup_path] = left]
         /\ trace' = Append(trace, FailEvent(backup_path, frame.content, Len(log) + 1))
  /\ log' = Append(log, Raised(frame, fs[frame.file_path], "OSError"))
  /\ pc' = "idle"
  /\ frame' = NoFrame
  /\ UNCHANGED compiled_rules

\* "file_path.write_text(new_content)" raises after the backup was written
WriteFileFails ==
  /\ pc = "overwrite"
  /\ \E left \in AfterFailedWrite(frame.file_path) : fs' = [fs EXCEPT ![frame.file_path] = left]
  /\ trace' = Append(trace, FailEvent(frame.file_path, frame.new_content, Len(log) + 1))
  /\ log' = Append(log, Raised(frame, fs[frame.file_path], "OSError"))
  /\ pc' = "idle"
  /\ frame' = NoFrame
  /\ UNCHANGED compiled_rules

NextIO == Next \/ WriteBackupFails \/ WriteFileFails

SpecIO == Init /\ [][NextIO]_vars

\* the calls in which a write failed
WriteFailedCalls ==
  {i \in Calls : \E k \in 1..Len(trace) : trace[k].op = "write_failed" /\ trace[k].call = i}

\* C18 (as claimed): an apply call in which the write of the backup or of the
\* file failed recovers and returns a FileAudit with changed = false
C18_WriteFailureAuditedUnchanged ==
  \A i \in WriteFailedCalls :
    /\ ~log[i].raised
    /\ Len(log[i].audits) = 1
    /\ ~log[i].audits[1].changed

\* ------------------------------------------------------------------ scan_project
\* the files a walk may meet
ScanFiles == {SqlFile, JavaFile, TxtFile}

\* the walks of a tree of two files, in the order os.walk lists them
Walks == {w \in [1..2 -> ScanFiles] : w[1] # w[2]}

\* configurations with one rule list for .sql and .java files alike
ScanConfigs ==
  {[EmptyConfig EXCEPT !.SQLRules = defs, !.JavaTypeRules = defs] :
     defs \in RuleListsUpTo(TextRuleDefs, MaxRules)}

\* the locals of scan_project at the head of the loop over the files
ScanFrame(walk, next, dry_run) == [walk |-> walk, next |-> next, dry_run |-> dry_run]

InitScan ==
  \E walk \in Walks, dry_run \in BOOLEAN, config \in ScanConfigs :
    \E c1, c2 \in SeqsUpTo(TextAlphabet \ {"\n"}, MaxLen) :
      /\ compiled_rules = compile_rules(config)
      /\ fs = [q \in AllPaths |->
                 IF q = walk[1] THEN c1 ELSE IF q = walk[2] THEN c2 ELSE NoFile]
      /\ pc = "walk"
      /\ frame = ScanFrame(walk, 1, dry_run)
      /\ log = <<>>
      /\ trace = <<>>

\* the file the loop is at
AtFile(f) == pc = "walk" /\ frame.next <= Len(frame.walk) /\ f = frame.walk[frame.next]

\* the loop goes on to the next file
ScanOn == frame' = [frame EXCEPT !.next = @ + 1] /\ pc' = pc

\* the exception leaves scan_project: no later file, no report
ScanAborted == frame' = frame /\ pc' = "aborted"

\* process_file returned for a file no search pattern matches
ScanFileNoMatch(f) ==
  /\ AtFile(f)
  /\ ~matches_search_pattern(f, SearchFiles)
  /\ log' = Append(log, LogEntry(f, frame.dry_run, fs[f], fs[f], fs[f], "", <<>>, <<>>, <<>>))
  /\ ScanOn
  /\ UNCHANGED <<compiled_rules, fs, trace>>

\* process_file returned and wrote nothing: dry run, or nothing changed
ScanFileKept(f) ==
  /\ AtFile(f)
  /\ matches_search_pattern(f, SearchFiles)
  /\ \E fr \in {Simulate(f, read_text(fs[f]), compiled_rules, frame.dry_run)} :
         /\ ~fr.raised
         /\ frame.dry_run \/ ~fr.changed
         /\ log' = Append(log, Returned(fr, fs[f]))
  /\ trace' = Append(trace, ReadEvent(f, fs[f]))
  /\ ScanOn
  /\ UNCHANGED <<compiled_rules, fs>>

\* process_file wrote the backup and the file, and returned
ScanFileRewritten(f) ==
  /\ AtFile(f)
  /\ matches_search_pattern(f, SearchFiles)
  /\ ~frame.dry_run
  /\ \E fr \in {Simulate(f, read_text(fs[f]), compiled_rules, FALSE)} :
         /\ ~fr.raised
         /\ fr.changed
         /\ log' = Append(log, Returned(fr, fs[f]))
         /\ fs' = [fs EXCEPT ![BackupPath(f, DefaultBackupExtension)] = fr.content,
                              ![f] = fr.new_content]
         /\ trace' = trace \o <<ReadEvent(f, fs[f]),
                                 WriteEvent(BackupPath(f, DefaultBackupExtension), fr.content),
                                 WriteEvent(f, fr.new_content)>>
  /\ ScanOn
  /\ UNCHANGED compiled_rules

\* read_text raised OSError in process_file
ScanReadFails(f) ==
  /\ AtFile(f)
  /\ matches_search_pattern(f, SearchFiles)
  /\ log' = Append(log, LogEntry(f, frame.dry_run, fs[f], fs[f], fs[f], "OSError",
                                 <<>>, <<>>, <<>>))
  /\ ScanAborted
  /\ UNCHANGED <<compiled_rules, fs, trace>>

\* detect_in_content raised IndexError in process_file
ScanDetectRaises(f) ==
  /\ AtFile(f)
  /\ matches_search_pattern(f, SearchFiles)
  /\ \E fr \in {Simulate(f, read_text(fs[f]), compiled_rules, frame.dry_run)} :
         /\ fr.raised
         /\ log' = Append(log, Raised(fr, fs[f], "IndexError"))
  /\ trace' = Append(trace, ReadEvent(f, fs[f]))
  /\ ScanAborted
  /\ UNCHANGED <<compiled_rules, fs>>

\* the write of the backup raised OSError in process_file
ScanWriteFails(f) ==
  /\ AtFile(f)
  /\ matches_search_pattern(f, SearchFiles)
  /\ ~frame.dry_run
  /\ \E fr \in {Simulate(f, read_text(fs[f]), compiled_rules, FALSE)} :
         /\ ~fr.raised
         /\ fr.changed
         /\ log' = Append(log, Raised(fr, fs[f], "OSError"))
         /\ trace' = trace \o <<ReadEvent(f, fs[f]),
                                 FailEvent(BackupPath(f, DefaultBackupExtension), fr.content,
                                           Len(log) + 1)>>
  /\ ScanAborted
  /\ UNCHANGED <<compiled_rules, fs>>

\* the walk is over: the report is assembled and written
ScanReport ==
  /\ pc = "walk"
  /\ frame.next > Len(frame.walk)
  /\ pc' = "reported"
  /\ UNCHANGED <<compiled_rules, fs, frame, log, trace>>

NextScan ==
  \/ \E f \in ScanFiles : ScanFileNoMatch(f)
  \/ \E f \in ScanFiles : ScanFileKept(f)
  \/ \E f \in ScanFiles : ScanFileRewritten(f)
  \/ \E f \in ScanFiles : ScanReadFails(f)
  \/ \E f \in ScanFiles : ScanDetectRaises(f)
  \/ \E f \in ScanFiles : ScanWriteFails(f)
  \/ ScanReport

SpecScan == InitScan /\ [][NextScan]_vars

\* C19 (as claimed): when an error was raised while one file was processed,
\* the run still processes every later file of the walk and ends with the
\* report that holds their results
C19_ErrorInOneFileDoesNotAbort ==
  (pc # "walk" /\ \E j \in Calls : log[j].raised)
  => /\ pc = "reported"
     /\ Len(log) = Len(frame.walk)
     /\ \A k \in Calls : log[k].file = frame.walk[k]

\* ------------------------------------------------------------------ scan_project from its call
\* a detection pattern re.compile rejects: a character set that is never closed
InvalidPattern == <<"[">>

\* does re.compile accept the pattern: "[" is the one metacharacter of the texts
ValidPattern(detect_re) == \A k \in 1..Len(detect_re) : detect_re[k] # "["

\* the re.error that re.compile raises for a pattern: its message and the
\* pattern it was given
re_error(detect_re) ==
  [exception |-> "re.error",
   msg |-> <<"unterminated character set at position 0">>,
   pattern |-> detect_re]

\* the rule definitions in the order compile_rules compiles them; the
\* configurations of the model hold at most one key of file-specific rules
DefsInCompileOrder(config) ==
  (IF DOMAIN config.FileSpecificRules = {} THEN <<>>
   ELSE config.FileSpecificRules[CHOOSE key \in DOMAIN config.FileSpecificRules : TRUE])
    \o config.SQLRules \o config.PLSQLRules \o config.JavaTypeRules

\* the definitions whose pattern re.compile rejects, in that order
InvalidDefs(config) ==
  SelectSeq(DefsInCompileOrder(config), LAMBDA r : ~ValidPattern(r.Regexp))

\* rules of a scanned project: ab -> x, a detect-only rule whose pattern
\* matches with zero width, and a rule whose pattern does not compile
ProjectRuleDefs ==
  {RuleDef("R_AB", <<"a", "b">>, TRUE, <<"a", "b">>, <<"x">>),
   RuleDef("ZERO_WIDTH", <<>>, FALSE, None, None),
   RuleDef("R_BAD", InvalidPattern, TRUE, <<"a">>, <<"b">>)}

\* directories under the root, as the names on the way down to them
DirPaths == {<<>>, <<"src">>, <<"target">>, <<"src", "target">>}

\* the subdirectories os.scandir lists in a directory
SubDirs(top) ==
  CASE top = <<>> -> <<"src", "target">>
    [] top = <<"src">> -> <<"target">>
    [] OTHER -> <<>>

\* where the files of a project may lie
Placements ==
  {place \in [ScanFiles -> DirPaths] : place[SqlFile] = <<>> /\ Len(place[TxtFile]) < 2}

\* the tree under the root: the directories and files listed in each directory
Tree(place) ==
  [top \in DirPaths |->
     [dirs |-> SubDirs(top),
      files |-> SelectSeq(<<SqlFile, JavaFile, TxtFile>>, LAMBDA f : place[f] = top)]]

\* os.walk(top) with the pruning of scan_project: the files of every directory
\* reached, top down, after excluded directory names are dropped from dirs
RECURSIVE os_walk(_, _, _)
RECURSIVE WalkDirs(_, _, _, _, _)
os_walk(tree, top, excluded_dirs) ==
  tree[top].files
    \o WalkDirs(tree, top, SelectSeq(tree[top].dirs, LAMBDA d : d \notin excluded_dirs),
                1, excluded_dirs)

WalkDirs(tree, top, dirs, k, excluded_dirs) ==
  IF k > Len(dirs) THEN <<>>
  ELSE os_walk(tree, Append(top, dirs[k]), excluded_dirs)
         \o WalkDirs(tree, top, dirs, k + 1, excluded_dirs)

\* the files the loop of scan_project hands to process_file, in order
FilesToProcess(tree, excluded_dirs, excluded_files) ==
  SelectSeq(os_walk(tree, <<>>, excluded_dirs), LAMBDA f : Name(f) \notin excluded_files)

\* configuration documents of a scanned project
ProjectConfigs ==
  {[FileSpecificRules |-> <<>>, SQLRules |-> defs, PLSQLRules |-> <<>>,
    JavaTypeRules |-> defs, DefaultDryRun |-> default_dry_run,
    ExcludedDirectories |-> excluded_dirs, ExcludedFiles |-> excluded_files] :
     defs \in RuleListsUpTo(ProjectRuleDefs, MaxRules),
     default_dry_run \in BOOLEAN,
     excluded_dirs \in {{}, {"target"}},
     excluded_files \in {{}, {Name(JavaFile)}}}

\* texts of the files of a scanned project
ProjectContents == {<<>>, <<"a", "b">>}

\* scan_project(config_path, apply_changes) is called
InitProject ==
  \E config \in ProjectConfigs, apply_changes \in BOOLEAN, place \in Placements :
    \E c1, c2 \in ProjectContents :
      /\ compiled_rules = None
      /\ fs = [q \in AllPaths |->
                 CASE q = SqlFile -> c1 [] q = JavaFile -> c2
                   [] q = TxtFile -> <<"a">> [] OTHER -> NoFile]
      /\ pc = "start"
      /\ frame = [config |-> config, apply_changes |-> apply_changes,
                  tree |-> Tree(place)]
      /\ log = <<>>
      /\ trace = <<>>

\* compile_rules raised: the re.error of the first invalid pattern leaves
\* scan_project
ScanCompileFails ==
  /\ pc = "start"
  /\ InvalidDefs(frame.config) # <<>>
  /\ pc' = "failed"
  /\ frame' = [config |-> frame.config, apply_changes |-> frame.apply_changes,
               tree |-> frame.tree,
               error |-> re_error(InvalidDefs(frame.config)[1].Regexp)]
  /\ UNCHANGED <<compiled_rules, fs, log, trace>>

\* the rules compiled; the options are read and the walk begins
ScanStart ==
  /\ pc = "start"
  /\ InvalidDefs(frame.config) = <<>>
  /\ compiled_rules' = compile_rules(frame.config)
  /\ pc' = "walk"
  /\ frame' = [config |-> frame.config, apply_changes |-> frame.apply_changes,
               tree |-> frame.tree,
               walk |-> FilesToProcess(frame.tree, frame.config.ExcludedDirectories,
                                       frame.config.ExcludedFiles),
               next |-> 1,
               dry_run |-> frame.config.DefaultDryRun /\ ~frame.apply_changes]
  /\ UNCHANGED <<fs, log, trace>>

NextProject == ScanStart \/ ScanCompileFails \/ NextScan

SpecProject == InitProject /\ [][NextProject]_vars

\* does the error name the rule
IdentifiesRule(error, id) == Contains(error.msg, <<id>>) \/ Contains(error.pattern, <<id>>)

\* C21 (as claimed): when a rule definition has an invalid detection pattern,
\* scan_project ends in compile_rules with an error that identifies the id of
\* the offending rule, no rule set is returned, and no file is processed or
\* written
C21_InvalidPatternFailsNamingRule ==
  (pc # "start" /\ InvalidDefs(frame.config) # <<>>)
  => /\ pc = "failed"
     /\ IdentifiesRule(frame.error, InvalidDefs(frame.config)[1].ID)
     /\ compiled_rules = None
     /\ log = <<>>
     /\ trace = <<>>

RECURSIVE ExtendAll(_, _, _)
\* the list built by extending an empty list with field of every entry in turn
ExtendAll(entries, field, k) ==
  IF k > Len(entries) THEN <<>>
  ELSE entries[k][field] \o ExtendAll(entries, field, k + 1)

\* the ledger of scan_project: the dry_run flag and the results of the calls
\* of process_file, in the order of the calls
result ==
  [dry_run |-> frame.dry_run,
   occurrences |-> ExtendAll(log, "occurrences", 1),
   changes |-> ExtendAll(log, "changes", 1),
   audit |-> ExtendAll(log, "audits", 1)]

\* C22 (as claimed): a run of scan_project without the apply option is
\* analysis only, whatever the configuration holds: it writes no scanned file
\* and no backup, and the dry_run flag it reports is true
C22_WithoutApplyNothingWritten ==
  ~frame.apply_changes
  => /\ \A k \in 1..Len(trace) : ~IsWrite(trace[k])
     /\ pc = "reported" => result.dry_run

\* ------------------------------------------------------------------ migrate_ora2pg (migrator_core.py)
\* Oldval is a literal text without groups, Newval a text in which the token
\* "$1" stands for a reference to group 1.  Files hold no POM rules, so the
\* XML engine is never entered.

\* str.lower of one character
LowerChar(c) == IF c = "A" THEN "a" ELSE IF c = "B" THEN "b" ELSE c

\* the text as re.IGNORECASE compares it
FoldCase(s) == [k \in 1..Len(s) |-> LowerChar(s[k])]

\* pattern.finditer(content) under re.IGNORECASE: 0-based match starts
FindIterFold(oldval, content) == finditer(FoldCase(oldval), FoldCase(content))

RECURSIVE SubFoldFrom(_, _, _, _)
SubFoldFrom(s, oldval, newval, i) ==
  IF i > Len(s) THEN <<>>
  ELSE IF OccursAt(FoldCase(s), FoldCase(oldval), i)
       THEN newval \o SubFoldFrom(s, oldval, newval, i + Len(oldval))
       ELSE <<s[i]>> \o SubFoldFrom(s, oldval, newval, i + 1)

\* pattern.sub(clean_new_val, content) under re.IGNORECASE
SubFold(s, oldval, newval) == SubFoldFrom(s, oldval, newval, 1)

\* re.sub(r'\$(\d+)', r'\\g<\1>', Newval) leaves a group reference, which a
\* pattern without groups rejects: pattern.sub raises re.error
HasGroupRef(newval) == \E k \in 1..Len(newval) : newval[k] = "$1"

\* one row of the report
ReportRow(file, rule_id, before, after, dry_run) ==
  [file |-> file, rule_id |-> rule_id, before |-> before, after |-> after,
   dry_run |-> dry_run]

\* the rows appended for the matches of one rule, left to right
RegexRuleRows(name, rule, content, dry_run) ==
  [m \in 1..Len(FindIterFold(rule.Oldval, content)) |->
     ReportRow(name, rule.ID,
               Slice(content, FindIterFold(rule.Oldval, content)[m] + 1,
                     FindIterFold(rule.Oldval, content)[m] + Len(rule.Oldval)),
               rule.Newval, dry_run)]

\* the loop of _process_regex_file from rule k on: the content reached, the
\* rows appended, and whether an exception ended the loop
RECURSIVE RegexRules(_, _, _, _, _, _)
RegexRules(name, rules, k, content, rows, dry_run) ==
  IF k > Len(rules) THEN [content |-> content, rows |-> rows, raised |-> FALSE]
  ELSE IF HasGroupRef(rules[k].Newval)
       THEN [content |-> content, rows |-> rows, raised |-> TRUE]
       ELSE RegexRules(name, rules, k + 1,
                       SubFold(content, rules[k].Oldval, rules[k].Newval),
                       rows \o RegexRuleRows(name, rules[k], content, dry_run), dry_run)

\* _process_regex_file(path, rules) up to its write
ProcessRegexFile(name, rules, content, dry_run) ==
  RegexRules(name, rules, 1, content, <<>>, dry_run)

\* fnmatch.fnmatch(filename, key) for a key that is a name or "*" and suffixes
fnmatch(file_path, key) == PathMatch(file_path, key)

\* _get_applicable_rules(filename, rules_dict); at most one key of the model's
\* rule maps matches a name
GetApplicableRules(file_path, rules_dict) ==
  IF \E key \in DOMAIN rules_dict : fnmatch(file_path, key)
  THEN rules_dict[CHOOSE key \in DOMAIN rules_dict : fnmatch(file_path, key)]
  ELSE <<>>

\* regex rules: ab -> x, a -> aa, and b -> $1
RegexRuleDefs ==
  {[ID |-> "R_AB", Oldval |-> <<"a", "b">>, Newval |-> <<"x">>],
   [ID |-> "R_A", Oldval |-> <<"a">>, Newval |-> <<"a", "a">>],
   [ID |-> "R_REF", Oldval |-> <<"b">>, Newval |-> <<"$1">>]}

\* "File Specific Rules": one rule list for *.sql and *.java
RegexRuleMaps ==
  {(Path("*", <<".sql">>) :> defs) @@ (Path("*", <<".java">>) :> defs) :
     defs \in RuleListsUpTo(RegexRuleDefs, MaxRules)}

\* where the files lie under the base directory
BasePlacements ==
  {place \in Placements : place[TxtFile] = <<>> /\ place[JavaFile] \in {<<>>, <<"target">>}}

\* the directory a file lies in
DirOf(tree, f) == CHOOSE top \in DOMAIN tree : \E k \in 1..Len(tree[top].files) : tree[top].files[k] = f

\* base_path.rglob("*"), files only
rglob(tree) == os_walk(tree, <<>>, {})

\* python migrate_ora2pg.py --base ... [--dry-run] [--no-backup]
InitOra2pg ==
  \E dry_run \in BOOLEAN, no_backup \in BOOLEAN, place \in BasePlacements,
     rules \in RegexRuleMaps, excluded_dirs \in {{}, {"target"}} :
    \E c1 \in SeqsUpTo({"a", "A", "b"}, MaxLen), c2 \in ProjectContents :
      /\ compiled_rules = rules
      /\ fs = [q \in AllPaths |->
                 CASE q = SqlFile -> c1 [] q = JavaFile -> c2
                   [] q = TxtFile -> <<"a">> [] OTHER -> NoFile]
      /\ pc = "main"
      /\ frame = [dry_run |-> dry_run, no_backup |-> no_backup,
                  excluded_dirs |-> excluded_dirs, tree |-> Tree(place)]
      /\ log = <<>>
      /\ trace = <<>>

\* main hands its arguments to apply_replacements_in_directory, which builds
\* the engine from config_file, base_dir and dry_run and starts the walk
OraMain ==
  /\ pc = "main"
  /\ pc' = "walk"
  /\ frame' = [dry_run |-> frame.dry_run, no_backup |-> frame.no_backup,
               make_backup |-> ~frame.no_backup,
               excluded_dirs |-> frame.excluded_dirs, tree |-> frame.tree,
               walk |-> rglob(frame.tree), next |-> 1]
  /\ UNCHANGED <<compiled_rules, fs, log, trace>>

\* the filters of run_migration let the file through to the regex engine
OraApplies(f) ==
  /\ \A k \in 1..Len(DirOf(frame.tree, f)) : DirOf(frame.tree, f)[k] \notin frame.excluded_dirs
  /\ \E k \in 1..Len(SearchFiles) : fnmatch(f, SearchFiles[k])
  /\ GetApplicableRules(f, compiled_rules) # <<>>

\* the file is filtered out
OraSkip(f) ==
  /\ AtFile(f)
  /\ ~OraApplies(f)
  /\ ScanOn
  /\ UNCHANGED <<compiled_rules, fs, log, trace>>

\* _process_regex_file reported its matches and wrote nothing: dry run, no
\* change, or an exception
OraRegexKept(f) ==
  /\ AtFile(f)
  /\ OraApplies(f)
  /\ \E r \in {ProcessRegexFile(f, GetApplicableRules(f, compiled_rules), fs[f],
                                frame.dry_run)} :
       /\ r.raised \/ frame.dry_run \/ r.content = fs[f]
       /\ log' = log \o r.rows
  /\ ScanOn
  /\ UNCHANGED <<compiled_rules, fs, trace>>

\* _process_regex_file reported its matches and wrote the file
OraRegexWritten(f) ==
  /\ AtFile(f)
  /\ OraApplies(f)
  /\ ~frame.dry_run
  /\ \E r \in {ProcessRegexFile(f, GetApplicableRules(f, compiled_rules), fs[f], FALSE)} :
       /\ ~r.raised
       /\ r.content # fs[f]
       /\ log' = log \o r.rows
       /\ fs' = [fs EXCEPT ![f] = r.content]
       /\ trace' = Append(trace, WriteEvent(f, r.content))
  /\ ScanOn
  /\ UNCHANGED compiled_rules

\* the walk is over: report.finalize()
OraFinalize ==
  /\ pc = "walk"
  /\ frame.next > Len(frame.walk)
  /\ pc' = "done"
  /\ UNCHANGED <<compiled_rules, fs, frame, log, trace>>

NextOra2pg ==
  \/ OraMain
  \/ \E f \in ScanFiles : OraSkip(f)
  \/ \E f \in ScanFiles : OraRegexKept(f)
  \/ \E f \in ScanFiles : OraRegexWritten(f)
  \/ OraFinalize

SpecOra2pg == InitOra2pg /\ [][NextOra2pg]_vars

\* C23 (as claimed): in apply mode without --no-backup a backup of the project
\* exists before any file is modified; with --no-backup or --dry-run no backup
\* is created
C23_BackupBeforeModification ==
  /\ (~frame.dry_run /\ ~frame.no_backup)
     => \A k \in 1..Len(trace) :
          IsWrite(trace[k]) => \E j \in 1..(k - 1) : trace[j].op = "backup"
  /\ (frame.dry_run \/ frame.no_backup)
     => \A k \in 1..Len(trace) : trace[k].op # "backup"

\* ------------------------------------------------------------------ funtion.py
\* Oldval is a literal text or the unclosed character set "[", Newval a text
\* without group references.

\* the rule is passed over: no Oldval, or an Oldval re.compile rejects
FunRuleSkipped(rule) == rule.Oldval = <<>> \/ ~ValidPattern(rule.Oldval)

\* content[start_line:end_line].strip() for the match at 0-based offset m:
\* the line around the match, from after the last "\n" before it to the first
\* "\n" at or after its end
FunLineText(content, m, oldval) ==
  LET before == {k \in 1..m : content[k] = "\n"}
      after == {k \in (m + Len(oldval) + 1)..Len(content) : content[k] = "\n"}
  IN  Strip(Slice(content,
                  IF before = {} THEN 1 ELSE 1 + CHOOSE k \in before : \A j \in before : j <= k,
                  IF after = {} THEN Len(content)
                  ELSE (CHOOSE k \in after : \A j \in after : k <= j) - 1))

\* the row built for one match
FunRow(file, rule, content, m, dry_run) ==
  [file |-> file, rule_id |-> rule.ID, line_context |-> FunLineText(content, m, rule.Oldval),
   before |-> Slice(content, m + 1, m + Len(rule.Oldval)),
   after |-> rule.Newval, dry_run |-> IF dry_run THEN "true" ELSE "false"]

\* the rows appended for the matches of one rule, left to right
FunRuleRows(file, rule, content, dry_run) ==
  [i \in 1..Len(finditer(rule.Oldval, content)) |->
     FunRow(file, rule, content, finditer(rule.Oldval, content)[i], dry_run)]

\* the content replaced after every rule, dry run or not
FunContentAlwaysReplaced(content, rule, dry_run) ==
  Replace(content, rule.Oldval, rule.Newval)

\* the content the next rule sees: replaced only when not in dry run
FunContentAfterRule(content, rule, dry_run) ==
  IF dry_run THEN content ELSE Replace(content, rule.Oldval, rule.Newval)

\* the loop over the rules of one file from rule k on
RECURSIVE FunRules(_, _, _, _, _, _, _)
FunRules(file, rules, k, content, rows, changes_made, dry_run) ==
  IF k > Len(rules)
  THEN [content |-> content, rows |-> rows, changes_made |-> changes_made]
  ELSE IF FunRuleSkipped(rules[k]) \/ finditer(rules[k].Oldval, content) = <<>>
       THEN FunRules(file, rules, k + 1, content, rows, changes_made, dry_run)
       ELSE FunRules(file, rules, k + 1,
                     FunContentAfterRule(content, rules[k], dry_run),
                     rows \o FunRuleRows(file, rules[k], content, dry_run),
                     TRUE, dry_run)

\* _collect_applicable_rules(file_rules, filename): the rules under the exact
\* name, then those under wildcard keys; at most one wildcard key of the
\* model's rule maps matches a name
CollectApplicableRules(file_rules, file_path) ==
  (IF file_path \in DOMAIN file_rules THEN file_rules[file_path] ELSE <<>>)
    \o (IF \E key \in DOMAIN file_rules : key.stem = "*" /\ fnmatch(file_path, key)
        THEN file_rules[CHOOSE key \in DOMAIN file_rules :
                          key.stem = "*" /\ fnmatch(file_path, key)]
        ELSE <<>>)

\* the row as _append_html writes it: a table row without the dry_run column
HtmlRow(row) ==
  [file |-> row.file, rule_id |-> row.rule_id, line_context |-> row.line_context,
   before |-> row.before, after |-> row.after]

\* rules: ab -> x, a -> aa, a rule without Oldval, a rule whose Oldval does
\* not compile
FunRuleDefs ==
  {[ID |-> "R_AB", Oldval |-> <<"a", "b">>, Newval |-> <<"x">>],
   [ID |-> "R_A", Oldval |-> <<"a">>, Newval |-> <<"a", "a">>],
   [ID |-> "R_E", Oldval |-> <<>>, Newval |-> <<"z">>],
   [ID |-> "R_BAD", Oldval |-> InvalidPattern, Newval |-> <<"z">>]}

\* "File Specific Rules": one list for *.sql and *.java, and a list under the
\* exact name q.sql
FunRuleMaps ==
  {(Path("*", <<".sql">>) :> defs) @@ (Path("*", <<".java">>) :> defs) @@ (SqlFile :> exact) :
     defs \in RuleListsUpTo(FunRuleDefs, MaxRules),
     exact \in {<<>>, <<[ID |-> "R_A", Oldval |-> <<"a">>, Newval |-> <<"a", "a">>]>>}}

\* the bytes of q.sql: texts, and one byte that is not UTF-8
FunContents == SeqsUpTo({"a", "b"}, MaxLen) \cup {<<InvalidByte>>}

\* shutil.copytree(base_dir, dest): the copy taken of the files
BackupEvent(files) == [op |-> "backup", files |-> files]

\* apply_replacements_in_directory(config_file, base_dir, dry_run, make_backup)
\* is called
InitFuntion ==
  \E dry_run \in BOOLEAN, make_backup \in BOOLEAN, place \in BasePlacements,
     file_rules \in FunRuleMaps, excluded_files \in {{}, {Name(JavaFile)}} :
    \E c1 \in FunContents :
      /\ compiled_rules = file_rules
      /\ fs = [q \in AllPaths |->
                 CASE q = SqlFile -> c1 [] q = JavaFile -> <<"a", "b">>
                   [] q = TxtFile -> <<"a">> [] OTHER -> NoFile]
      /\ pc = "call"
      /\ frame = [dry_run |-> dry_run, make_backup |-> make_backup,
                  excluded_files |-> excluded_files, tree |-> Tree(place)]
      /\ log = [csv |-> <<>>, html |-> <<>>]
      /\ trace = <<>>

\* the configuration is read, the backup is taken when asked for and not in
\* dry run, the reports are initialised and the walk begins
FunStart ==
  /\ pc = "call"
  /\ pc' = "walk"
  /\ trace' = IF frame.make_backup /\ ~frame.dry_run THEN <<BackupEvent(fs)>> ELSE <<>>
  /\ frame' = [dry_run |-> frame.dry_run, make_backup |-> frame.make_backup,
               excluded_files |-> frame.excluded_files, tree |-> frame.tree,
               walk |-> rglob(frame.tree), next |-> 1]
  /\ UNCHANGED <<compiled_rules, fs, log>>

\* the filters of the walk let the file through: not an excluded file name, a
\* search pattern matches, and some rule applies
FunApplies(f) ==
  /\ Name(f) \notin frame.excluded_files
  /\ \E k \in 1..Len(SearchFiles) : fnmatch(f, SearchFiles[k])
  /\ CollectApplicableRules(compiled_rules, f) # <<>>

\* the file is filtered out, or read_text raises UnicodeDecodeError
FunSkip(f) ==
  /\ AtFile(f)
  /\ ~FunApplies(f) \/ ~ValidText(fs[f])
  /\ ScanOn
  /\ UNCHANGED <<compiled_rules, fs, log, trace>>

\* the rules ran over the file and nothing was written: dry run, or no match
FunKept(f) ==
  /\ AtFile(f)
  /\ FunApplies(f)
  /\ ValidText(fs[f])
  /\ \E r \in {FunRules(f, CollectApplicableRules(compiled_rules, f), 1, fs[f], <<>>,
                        FALSE, frame.dry_run)} :
       /\ frame.dry_run \/ ~r.changes_made
       /\ log' = [csv |-> log.csv \o r.rows,
                  html |-> log.html \o [k \in 1..Len(r.rows) |-> HtmlRow(r.rows[k])]]
  /\ ScanOn
  /\ UNCHANGED <<compiled_rules, fs, trace>>

\* the rules ran over the file and the file was written
FunWritten(f) ==
  /\ AtFile(f)
  /\ FunApplies(f)
  /\ ValidText(fs[f])
  /\ ~frame.dry_run
  /\ \E r \in {FunRules(f, CollectApplicableRules(compiled_rules, f), 1, fs[f], <<>>,
                        FALSE, FALSE)} :
       /\ r.changes_made
       /\ log' = [csv |-> log.csv \o r.rows,
                  html |-> log.html \o [k \in 1..Len(r.rows) |-> HtmlRow(r.rows[k])]]
       /\ fs' = [fs EXCEPT ![f] = r.content]
       /\ trace' = Append(trace, WriteEvent(f, r.content))
  /\ ScanOn
  /\ UNCHANGED compiled_rules

\* the walk is over: _finalize_html
FunFinalize ==
  /\ pc = "walk"
  /\ frame.next > Len(frame.walk)
  /\ pc' = "done"
  /\ UNCHANGED <<compiled_rules, fs, frame, log, trace>>

NextFuntion ==
  \/ FunStart
  \/ \E f \in ScanFiles : FunSkip(f)
  \/ \E f \in ScanFiles : FunKept(f)
  \/ \E f \in ScanFiles : FunWritten(f)
  \/ FunFinalize

SpecFuntion == InitFuntion /\ [][NextFuntion]_vars

\* the rows of a report about one file and one rule
RowsAbout(rows, f, id) == {k \in 1..Len(rows) : rows[k].file = f /\ rows[k].rule_id = id}

\* the matches in the content of f of the applicable rules named id: a rule
\* without Oldval or with an invalid Oldval has none
MatchesOf(f, def) ==
  IF FunApplies(f) /\ ValidText(fs[f]) /\ def.Oldval # <<>> /\ def.Oldval # InvalidPattern
  THEN Cardinality({r \in 1..Len(CollectApplicableRules(compiled_rules, f)) :
                      CollectApplicableRules(compiled_rules, f)[r] = def})
         * Count(fs[f], def.Oldval)
  ELSE 0

NotExcluded(f) ==
  /\ \A k \in 1..Len(DirOf(frame.tree, f)) :
       DirOf(frame.tree, f)[k] \notin frame.config.ExcludedDirectories
  /\ Name(f) \notin frame.config.ExcludedFiles

\* the calls of process_file for a file
CallsFor(f) == {k \in Calls : log[k].file = f}

\* the place of a file in the walk of the whole tree
WalkIndex(f) == CHOOSE k \in 1..Len(rglob(frame.tree)) : rglob(frame.tree)[k] = f

\* C25 (as claimed): once the rules are compiled, a run of scan_project calls
\* process_file exactly once for every file that lies in no excluded directory
\* and has no excluded name, never for another file, in walk order, and the
\* ledger holds exactly one audit for every such file that matches a search
\* pattern
C25_EveryFileProcessedOnce ==
  pc \in {"reported", "aborted"}
  => /\ \A f \in ScanFiles :
          Cardinality(CallsFor(f)) = IF NotExcluded(f) THEN 1 ELSE 0
     /\ \A j, k \in Calls : j < k => WalkIndex(log[j].file) < WalkIndex(log[k].file)
     /\ \A f \in ScanFiles :
          Cardinality({k \in 1..Len(result.audit) : result.audit[k].file = f})
            = IF NotExcluded(f) /\ matches_search_pattern(f, SearchFiles) THEN 1 ELSE 0

\* ------------------------------------------------------------------ the rules of a file
\* a detect-only rule that matches the text "a"
DetectOnly(id) == RuleDef(id, <<"a">>, FALSE, None, None)

\* the lists a collection may hold: none, one or two of its own rules, in
\* either order
ListsOf(id1, id2) ==
  {<<>>, <<DetectOnly(id1)>>, <<DetectOnly(id2)>>, <<DetectOnly(id1), DetectOnly(id2)>>,
   <<DetectOnly(id2), DetectOnly(id1)>>}

\* configurations with rules under the name and the extension of f, under a
\* key of another file, and in the three domain collections
RuleConfigsFor(f) ==
  {[FileSpecificRules |->
      (IF by_name = <<>> THEN <<>> ELSE (Name(f) :> by_name))
        @@ (IF by_ext = <<>> THEN <<>> ELSE (Ext(f) :> by_ext))
        @@ (<<"bak">> :> <<DetectOnly("OTHER")>>),
    SQLRules |-> sql, PLSQLRules |-> plsql, JavaTypeRules |-> java] :
     by_name \in ListsOf("NAME_1", "NAME_2"), by_ext \in ListsOf("EXT_1", "EXT_2"),
     sql \in {<<>>, <<DetectOnly("SQL_1"), DetectOnly("SQL_2")>>},
     plsql \in {<<>>, <<DetectOnly("PLSQL_1")>>},
     java \in {<<>>, <<DetectOnly("JAVA_1"), DetectOnly("JAVA_2")>>}}

\* process_file is about to run on a file that holds "a"
InitRules ==
  \E f \in ScanFiles : \E config \in RuleConfigsFor(f) :
    /\ compiled_rules = compile_rules(config)
    /\ fs = [q \in AllPaths |-> IF q = f THEN <<"a">> ELSE NoFile]
    /\ pc = "call"
    /\ frame = [file_path |-> f, config |-> config]
    /\ log = <<>>
    /\ trace = <<>>

\* process_file(file_path, ..., dry_run=True): the rule list it assembles and
\* the occurrences it returns
ProcessWithRules ==
  /\ pc = "call"
  /\ pc' = "returned"
  /\ \E fr \in {Simulate(frame.file_path, read_text(fs[frame.file_path]), compiled_rules, TRUE)} :
       log' = <<[file |-> frame.file_path,
                 all_rules |-> RulesToApply(frame.file_path, compiled_rules,
                                            compiled_rules.file_specific),
                 raised |-> fr.raised,
                 occurrences |-> IF fr.raised THEN <<>> ELSE fr.occurrences]>>
  /\ trace' = <<ReadEvent(frame.file_path, fs[frame.file_path])>>
  /\ UNCHANGED <<compiled_rules, fs, frame>>

NextRules == ProcessWithRules

SpecRules == InitRules /\ [][NextRules]_vars

\* the rules of a collection of the configuration document, compiled
GroupOf(defs, domain) == [k \in 1..Len(defs) |-> CompileRule(defs[k], domain)]

\* the file-specific rules under a key, none when the key is absent
KeyedBy(config, key) ==
  IF key \in DOMAIN config.FileSpecificRules
  THEN GroupOf(config.FileSpecificRules[key], "FILE") ELSE <<>>

\* the suffix of a file name
SuffixOf(f) == IF f.exts = <<>> THEN "" ELSE f.exts[Len(f.exts)]

\* C26: the rules process_file applies to a file are the file-specific rules
\* under its exact name, then those under its extension, then the domain
\* rules of its suffix (java for .java; sql then plsql for .sql; else none),
\* each group in configured order; detection reports them in that order
C26_RuleListByNameExtDomain ==
  pc = "returned"
  => LET config == frame.config
         f == frame.file_path
         expected ==
           KeyedBy(config, Name(f)) \o KeyedBy(config, Ext(f))
             \o (CASE SuffixOf(f) = ".java" -> GroupOf(config.JavaTypeRules, "JAVA")
                   [] SuffixOf(f) = ".sql" ->
                        GroupOf(config.SQLRules, "SQL") \o GroupOf(config.PLSQLRules, "PLSQL")
                   [] OTHER -> <<>>)
     IN  /\ log[1].all_rules = expected
         /\ ~log[1].raised
         /\ Len(log[1].occurrences) = Len(expected)
         /\ \A k \in 1..Len(expected) : log[1].occurrences[k].rule_id = expected[k].id

\* a query file with two rules under its name, two under its extension, and
\* sql and plsql rules: seven rules from four collections were applied
C26_Witness ==
  /\ pc = "returned"
  /\ frame.file_path = SqlFile
  /\ Len(log[1].occurrences) = 7
  /\ log[1].occurrences[1].rule_id = "NAME_2"
  /\ log[1].occurrences[3].rule_id = "EXT_1"
  /\ log[1].occurrences[7].rule_id = "PLSQL_1"

\* ------------------------------------------------------------------ C27..C30
\* the structural rewriter wrote new_line and diff of the k-th occurrence
WrittenByStructural(detected, pom, k) == pom.occurrences[k] # detected[k]

\* the generic rewriter, starting from the content the structural rewriter
\* returned, wrote new_line and diff of the k-th occurrence: a rule with the id
\* of the occurrence fired
WrittenByGeneric(detected, pom, rules, k) ==
  \E r \in 1..Len(rules) : rules[r].id = detected[k].rule_id /\ Fires(pom.content, rules, r)

\* no occurrence of the call was written by both passes
OnePassPerOccurrence(detected, pom, rules) ==
  \A k \in 1..Len(detected) :
    ~(WrittenByStructural(detected, pom, k) /\ WrittenByGeneric(detected, pom, rules, k))

\* C27 (as claimed): while a descriptor is processed, no occurrence has its
\* new_line and diff written by the structural rewriter and again by the
\* generic rewriter
C27_OccurrenceWrittenByOnePass ==
  \A i \in PomCalls :
    OnePassPerOccurrence(
      detect_in_content(log[i].before, AppliedRules(log[i].file), log[i].file).occurrences,
      apply_pom_dependency_changes(
        log[i].before, log[i].file,
        detect_in_content(log[i].before, AppliedRules(log[i].file), log[i].file).occurrences,
        AppliedRules(log[i].file)),
      AppliedRules(log[i].file))

\* C28 (as claimed): a processed file for which no Change was emitted is
\* audited changed = false, descriptors included, and a call that is about to
\* write the backup or the file has emitted a Change
C28_ChangedOnlyWithChange ==
  /\ \A i \in Processed : log[i].changes = <<>> => ~log[i].audits[1].changed
  /\ pc \in {"backup", "overwrite"} => frame.changes # <<>>

\* the rules whose conversion is enabled, in order
EnabledOnly(rules) == SelectSeq(rules, LAMBDA rule : rule.convert_enabled)

\* apply_conversions gives the content and the changes of the call when it is
\* handed the rules without the conversion-disabled ones
SameWithoutDisabled(i, conv) ==
  /\ conv.content = log[i].new_content
  /\ conv.changes = log[i].changes

\* C29 (as claimed): removing every conversion-disabled rule from the rules
\* handed to apply_conversions changes neither the returned content nor the
\* change list
C29_DisabledRulesHaveNoEffect ==
  \A i \in Processed :
    SameWithoutDisabled(i, apply_conversions(log[i].before, EnabledOnly(AppliedRules(log[i].file)),
                                             log[i].file, log[i].occurrences))

\* the last call returned, in apply mode, for a file a search pattern matches
LastApplyRun(e) ==
  /\ pc = "idle"
  /\ ~e.dry_run
  /\ ~e.raised
  /\ matches_search_pattern(e.file, SearchFiles)

\* what an apply-mode run e has left behind when it returns: if it changed
\* the file, the backup holds what the file held before the run and the file
\* holds the new content; else the run read the file and wrote nothing
LeftBehind(e) ==
  IF e.audits[1].changed
  THEN /\ fs[BackupOf(e.file)] = e.raw
       /\ fs[e.file] = e.new_content
  ELSE /\ trace[Len(trace)] = ReadEvent(e.file, e.raw)
       /\ fs[e.file] = e.raw

\* C30 (as claimed): after every apply-mode run in a sequence of runs on one
\* file, a run that changed the file has left the backup holding the content
\* the file had right before that run, whatever an earlier backup held, and
\* the file holding the new content; a run that did not change it wrote
\* neither the file nor the backup
C30_BackupHoldsContentBeforeRun ==
  (log # <<>> /\ LastApplyRun(log[Len(log)])) => LeftBehind(log[Len(log)])

====
